---- MODULE Spec2Model ----
(***************************************************************************)
(* A model of the toml package: the scanner (lex.go), the parser that      *)
(* builds the tree (Parse and the Tree methods), the nodes (node.go) and   *)
(* the decoder (Unmarshal and the decode methods).                         *)
(*                                                                         *)
(* Text is a sequence of one-character strings.  The scanner runs as its   *)
(* own task and hands tokens to the parser over the unbuffered channel     *)
(* `tokens`; the parser is a stack machine that takes one step per token   *)
(* operation (Tree.next / Tree.peek); the decoder takes one step per       *)
(* section header and per entry of the tree.                               *)
(***************************************************************************)
EXTENDS Integers, Sequences, FiniteSets, TLC

VARIABLES
    doc,        \* ghost: the names of the fragments the input text is made of
    ttype,      \* the type of the value the caller passes to Unmarshal
    input,      \* lexer.input / Tree.text
    lx,         \* the lexer's fields and the position of its task
    tokens,     \* the channel lexer.tokens: <<>> or the one token being sent
    sent,       \* ghost: every token the scanner has handed to the channel
    received,   \* ghost: every token lexer.nextToken has taken from the channel
    t,          \* the Tree: Root, token[3], peekCount, and lexer.lastPos
    pc,         \* where the task that called Unmarshal stands
    stack,      \* the parser's open calls (entryGroup, entry, array)
    perr,       \* Parse's results: tree (ptree) and err (perr)
    ptree,
    d,          \* the decoder's position in the tree and its value v
    newv,       \* Unmarshal's newv: the map built for a dynamic target
    target,     \* the caller's value
    uerr        \* Unmarshal's result

vars == <<doc, ttype, input, lx, tokens, sent, received, t, pc, stack, perr,
          ptree, d, newv, target, uerr>>

(***************************************************************************)
(* Characters                                                              *)
(***************************************************************************)
NL == "\n"
CR == "\r"
TAB == "\t"
QUOTE == "\""
BSLASH == "\\"
eof == "EOF"                    \* lex.go: eof = -1

Digits == {"0", "1", "2", "3", "4", "5", "6", "7", "8", "9"}
Letters == {"a", "b", "c", "d", "e", "f", "g", "h", "i", "j", "k", "l", "m",
            "n", "o", "p", "q", "r", "s", "t", "u", "v", "w", "x", "y", "z",
            "A", "B", "C", "D", "E", "F", "G", "H", "I", "J", "K", "L", "M",
            "N", "O", "P", "Q", "R", "S", "T", "U", "V", "W", "X", "Y", "Z"}

isSpace(r) == r = " " \/ r = TAB
isDash(r) == r = "-"
isNewLineLF(r) == r = NL

isNewLine(r) == r = NL \/ r = CR
isAlpha(r) == r = "_" \/ r \in Letters
isDigit(r) == r \in Digits
isAlphaNumeric(r) == isAlpha(r) \/ isDigit(r)

datetimeFormat ==
    <<"0", "0", "0", "0", "-", "0", "0", "-", "0", "0", "T",
      "0", "0", ":", "0", "0", ":", "0", "0", "Z">>

\* input[from:to] of Go: the bytes at the 0-based positions from .. to-1
Slice(s, from, to) == SubSeq(s, from + 1, to)

\* the rune lexer.next returns at position p, eof past the end
RuneAt(s, p) == IF p >= Len(s) THEN eof ELSE s[p + 1]

\* lexer.next: the rune, the new pos and the width
LexNext(s, p) ==
    IF p >= Len(s) THEN [r |-> eof, pos |-> p, width |-> 0]
    ELSE [r |-> s[p + 1], pos |-> p + 1, width |-> 1]

\* strings.HasPrefix(s[from:], word)
HasPrefixAt(s, from, word) ==
    /\ from + Len(word) <= Len(s)
    /\ Slice(s, from, from + Len(word)) = word

(***************************************************************************)
(* The scanner (lex.go).  The lexer record l has the fields of the struct  *)
(* (pos, start, width, arrayDepth), state (the stateFn run() holds, "nil"  *)
(* once the loop has ended) and, while the task stands in a channel send,  *)
(* blocked = TRUE with inEmit telling whether the send is emit's (which    *)
(* then sets start = pos) or errorf's.  A state function yields the new    *)
(* record and, in out, the token it sends (<<>> if none).                  *)
(***************************************************************************)
tokenError == "tokenError"
tokenEOF == "tokenEOF"
tokenSpace == "tokenSpace"
tokenKeyGroup == "tokenKeyGroup"
tokenKey == "tokenKey"
tokenKeySep == "tokenKeySep"
tokenBool == "tokenBool"
tokenNumber == "tokenNumber"
tokenString == "tokenString"
tokenDatetime == "tokenDatetime"
tokenArrayStart == "tokenArrayStart"
tokenArrayEnd == "tokenArrayEnd"
tokenArraySep == "tokenArraySep"

\* the position of the first rune at or after p that is not in S
RECURSIVE SkipSet(_, _, _)
SkipSet(s, p, S) ==
    IF p < Len(s) /\ s[p + 1] \in S THEN SkipSet(s, p + 1, S) ELSE p

\* the position of the first newline at or after p, or the end of input
RECURSIVE SkipToNL(_, _)
SkipToNL(s, p) ==
    IF p < Len(s) /\ s[p + 1] # NL THEN SkipToNL(s, p + 1) ELSE p

\* the width lexer.next leaves after reading the rune at p
WidthAt(s, p) == IF p >= Len(s) THEN 0 ELSE 1

\* lexer.emit: send token{t, l.start, l.input[l.start:l.pos]}, then start = pos
emitNoWait(s, l, typ, next) ==
    [l |-> [l EXCEPT !.state = next, !.start = l.pos],
     out |-> <<[typ |-> typ, pos |-> l.start, val |-> Slice(s, l.start, l.pos)]>>]

emit(s, l, typ, next) ==
    [l |-> [l EXCEPT !.state = next, !.blocked = TRUE, !.inEmit = TRUE],
     out |-> <<[typ |-> typ, pos |-> l.start, val |-> Slice(s, l.start, l.pos)]>>]

\* an errorf that would go on scanning after the error token
errorfGoesOn(l, msg) ==
    [l |-> [l EXCEPT !.state = "lexStart", !.blocked = TRUE, !.inEmit = FALSE],
     out |-> <<[typ |-> tokenError, pos |-> l.start, val |-> <<msg>>]>>]

\* lexer.errorf: send the error token and return nil
errorf(l, msg) ==
    [l |-> [l EXCEPT !.state = "nil", !.blocked = TRUE, !.inEmit = FALSE],
     out |-> <<[typ |-> tokenError, pos |-> l.start, val |-> <<msg>>]>>]

\* a state function returning the next state without sending
goto(l, next) == [l |-> [l EXCEPT !.state = next], out |-> <<>>]

\* lexer.ignore
ignore(l) == [l EXCEPT !.start = l.pos]

\* ignoreSpaces: next() while isSpace, backup, ignore
ignoreSpaces(s, l) ==
    LET q == SkipSet(s, l.pos, {" ", TAB})
    IN  [l EXCEPT !.pos = q, !.start = q, !.width = WidthAt(s, q)]

\* lexComment: next() up to '\n' or eof, backup, ignore, return nextState
lexComment(s, l, nextState) ==
    LET q == SkipToNL(s, l.pos)
    IN  goto([l EXCEPT !.pos = q, !.start = q, !.width = WidthAt(s, q)], nextState)

lexStart(s, l) ==
    LET n == LexNext(s, l.pos)
        r == n.r
        l1 == [l EXCEPT !.pos = n.pos, !.width = n.width]
    IN  CASE r = eof -> emit(s, l1, tokenEOF, "nil")
          [] isDash(r) -> goto(ignore(l1), "lexStart")
          [] isNewLine(r) ->
                IF isNewLine(RuneAt(s, l1.pos))
                THEN emit(s, [l1 EXCEPT !.width = WidthAt(s, l1.pos)], tokenEOF, "nil")
                ELSE goto(ignore([l1 EXCEPT !.width = WidthAt(s, l1.pos)]), "lexStart")
          [] isSpace(r) -> goto(ignoreSpaces(s, l1), "lexStart")
          [] r = "#" -> lexComment(s, l1, "lexStart")
          [] r = "[" -> goto(l1, "lexKeyGroup")
          [] isAlpha(r) -> goto(l1, "lexKey")
          [] OTHER -> errorf(l1, "lexStart parse error")

lexKeyGroup(s, l) ==
    LET q == SkipSet(s, l.pos, Letters \cup Digits \cup {"_", "."})
        r == RuneAt(s, q)
    IN  IF r = "]"
        THEN emit(s, [l EXCEPT !.pos = q + 1, !.width = 1], tokenKeyGroup, "lexStart")
        ELSE errorf([l EXCEPT !.pos = q, !.width = WidthAt(s, q)], "bad keygroup name")

lexKey(s, l) ==
    LET q == SkipSet(s, l.pos, Letters \cup Digits \cup {"_"})
        r == RuneAt(s, q)
        l1 == [l EXCEPT !.pos = q, !.width = WidthAt(s, q)]
    IN  IF isSpace(r)
        THEN emit(s, l1, tokenKey, "lexKeySep")
        ELSE errorf(l1, "bad keyname")

lexKeySep(s, l) ==
    LET l1 == ignoreSpaces(s, l)
        n == LexNext(s, l1.pos)
        l2 == [l1 EXCEPT !.pos = n.pos, !.width = n.width]
    IN  IF n.r = "=" \/ n.r = ":"
        THEN emit(s, l2, tokenKeySep, "lexValue")
        ELSE errorf(l2, "bad key seperator")

\* a lexValue that does not count the brackets it opens
lexValueUncounted(s, l) ==
    LET n == LexNext(s, l.pos)
        r == n.r
        l1 == [l EXCEPT !.pos = n.pos, !.width = n.width]
    IN  CASE r = eof -> emit(s, l1, tokenEOF, "nil")
          [] r = CR -> goto(ignore(l1), "lexValue")
          [] r = NL ->
                IF l1.arrayDepth = 0
                THEN goto(ignore(l1), "lexStart")
                ELSE goto(ignore(l1), "lexValue")
          [] isSpace(r) -> goto(ignoreSpaces(s, l1), "lexValue")
          [] r = "#" -> lexComment(s, l1, "lexValue")
          [] r = QUOTE -> goto(l1, "lexString")
          [] r = "[" -> emit(s, l1, tokenArrayStart, "lexValue")
          [] r = "]" -> emit(s, l1, tokenArrayEnd, "lexValue")
          [] r = "," -> emit(s, l1, tokenArraySep, "lexValue")
          [] r = "+" \/ r = "-" ->
                goto([l1 EXCEPT !.pos = @ - l1.width], "lexNumber")
          [] isDigit(r) ->
                goto([l1 EXCEPT !.pos = @ - l1.width], "lexNumberOrDatetime")
          [] HasPrefixAt(s, l1.pos - l1.width, <<"t", "r", "u", "e">>) ->
                emit(s, [l1 EXCEPT !.pos = @ + 3], tokenBool, "lexStart")
          [] HasPrefixAt(s, l1.pos - l1.width, <<"f", "a", "l", "s", "e">>) ->
                emit(s, [l1 EXCEPT !.pos = @ + 4], tokenBool, "lexStart")
          [] OTHER -> errorf(l1, "bad value")

lexValue(s, l) ==
    LET n == LexNext(s, l.pos)
        r == n.r
        l1 == [l EXCEPT !.pos = n.pos, !.width = n.width]
    IN  CASE r = eof -> emit(s, l1, tokenEOF, "nil")
          [] r = CR -> goto(ignore(l1), "lexValue")
          [] r = NL ->
                IF l1.arrayDepth = 0
                THEN goto(ignore(l1), "lexStart")
                ELSE goto(ignore(l1), "lexValue")
          [] isSpace(r) -> goto(ignoreSpaces(s, l1), "lexValue")
          [] r = "#" -> lexComment(s, l1, "lexValue")
          [] r = QUOTE -> goto(l1, "lexString")
          [] r = "[" ->
                emit(s, [l1 EXCEPT !.arrayDepth = @ + 1], tokenArrayStart, "lexValue")
          [] r = "]" ->
                IF l1.arrayDepth - 1 < 0
                THEN errorf([l1 EXCEPT !.arrayDepth = @ - 1], "unexpected array end")
                ELSE emit(s, [l1 EXCEPT !.arrayDepth = @ - 1], tokenArrayEnd, "lexValue")
          [] r = "," ->
                IF l1.arrayDepth > 0
                THEN emit(s, l1, tokenArraySep, "lexValue")
                ELSE errorf(l1, "unexpected comma outside array")
          [] r = "+" \/ r = "-" ->
                goto([l1 EXCEPT !.pos = @ - l1.width], "lexNumber")
          [] isDigit(r) ->
                goto([l1 EXCEPT !.pos = @ - l1.width], "lexNumberOrDatetime")
          [] HasPrefixAt(s, l1.pos - l1.width, <<"t", "r", "u", "e">>) ->
                emit(s, [l1 EXCEPT !.pos = @ + 3], tokenBool, "lexStart")
          [] HasPrefixAt(s, l1.pos - l1.width, <<"f", "a", "l", "s", "e">>) ->
                emit(s, [l1 EXCEPT !.pos = @ + 4], tokenBool, "lexStart")
          [] OTHER -> errorf(l1, "bad value")

\* the loop of lexString from position p: where it stops, whether at a quote,
\* and the width of the last rune read
RECURSIVE StringScan(_, _)
StringScan(s, p) ==
    LET r == RuneAt(s, p)
    IN  CASE r = BSLASH ->
                IF RuneAt(s, p + 1) = eof
                THEN [ok |-> FALSE, pos |-> p + 1, width |-> 0]
                ELSE StringScan(s, p + 2)
          [] r = eof -> [ok |-> FALSE, pos |-> p, width |-> 0]
          [] r = NL -> [ok |-> FALSE, pos |-> p + 1, width |-> 1]
          [] r = QUOTE -> [ok |-> TRUE, pos |-> p + 1, width |-> 1]
          [] OTHER -> StringScan(s, p + 1)

lexString(s, l) ==
    LET sc == StringScan(s, l.pos)
        l1 == [l EXCEPT !.pos = sc.pos, !.width = sc.width]
    IN  IF sc.ok
        THEN emit(s, l1, tokenString, "lexValue")
        ELSE errorf(l1, "unterminated string")

lexNumberOrDatetimeNear(s, l) ==
    LET i == l.pos + 3
    IN  IF Len(s) > i /\ s[i + 1] = "-"
        THEN goto(l, "lexDatetime")
        ELSE goto(l, "lexNumber")

lexNumberOrDatetime(s, l) ==
    LET i == l.pos + 4
    IN  IF Len(s) > i /\ s[i + 1] = "-"
        THEN goto(l, "lexDatetime")
        ELSE goto(l, "lexNumber")

lexNumber(s, l) ==
    LET p1 == IF RuneAt(s, l.pos) \in {"+", "-"} THEN l.pos + 1 ELSE l.pos
        p2 == SkipSet(s, p1, Digits)
        p3 == IF RuneAt(s, p2) = "." THEN SkipSet(s, p2 + 1, Digits) ELSE p2
        r == RuneAt(s, p3)
    IN  IF isAlphaNumeric(r) \/ r = "-"
        THEN errorf([l EXCEPT !.pos = p3 + 1, !.width = 1], "bad number syntax")
        ELSE emit(s, [l EXCEPT !.pos = p3, !.width = WidthAt(s, p3)],
                  tokenNumber, "lexValue")

\* the loop of lexDatetime: rune i of the layout against the rune at p
RECURSIVE DatetimeScan(_, _, _)
DatetimeScan(s, p, i) ==
    LET n == LexNext(s, p)
        f == datetimeFormat[i]
    IN  IF (f = "0" /\ isDigit(n.r)) \/ f = n.r
        THEN IF i = Len(datetimeFormat)
             THEN [ok |-> TRUE, pos |-> n.pos, width |-> n.width]
             ELSE DatetimeScan(s, n.pos, i + 1)
        ELSE [ok |-> FALSE, pos |-> n.pos, width |-> n.width]

lexDatetime(s, l) ==
    LET sc == DatetimeScan(s, l.pos, 1)
        l1 == [l EXCEPT !.pos = sc.pos, !.width = sc.width]
    IN  IF sc.ok
        THEN emit(s, l1, tokenDatetime, "lexValue")
        ELSE errorf(l1, "bad datetime")

\* one iteration of lexer.run: l.state = l.state(l)
RunState(s, l) ==
    CASE l.state = "lexStart" -> lexStart(s, l)
      [] l.state = "lexKeyGroup" -> lexKeyGroup(s, l)
      [] l.state = "lexKey" -> lexKey(s, l)
      [] l.state = "lexKeySep" -> lexKeySep(s, l)
      [] l.state = "lexValue" -> lexValue(s, l)
      [] l.state = "lexString" -> lexString(s, l)
      [] l.state = "lexNumberOrDatetime" -> lexNumberOrDatetime(s, l)
      [] l.state = "lexNumber" -> lexNumber(s, l)
      [] l.state = "lexDatetime" -> lexDatetime(s, l)

\* lex(): the lexer as the new task finds it
NewLexer ==
    [state |-> "lexStart", pos |-> 0, start |-> 0, width |-> 0,
     arrayDepth |-> 0, blocked |-> FALSE, inEmit |-> FALSE]

(***************************************************************************)
(* Conversions of the standard library that the parser calls on token      *)
(* text.  The scanner only hands over number text of the shape             *)
(* [+-] digits [. digits], which is the domain these are written for.      *)
(***************************************************************************)
DigitVal(c) ==
    CASE c = "0" -> 0 [] c = "1" -> 1 [] c = "2" -> 2 [] c = "3" -> 3
      [] c = "4" -> 4 [] c = "5" -> 5 [] c = "6" -> 6 [] c = "7" -> 7
      [] c = "8" -> 8 [] c = "9" -> 9

\* the value of the digit string ds in the given base, most significant first
RECURSIVE DigitsValue(_, _)
DigitsValue(ds, base) ==
    IF ds = <<>> THEN 0
    ELSE DigitsValue(SubSeq(ds, 1, Len(ds) - 1), base) * base + DigitVal(ds[Len(ds)])

StripSign(text) ==
    IF text # <<>> /\ text[1] \in {"+", "-"} THEN Tail(text) ELSE text

IsNeg(text) == text # <<>> /\ text[1] = "-"

\* strconv.ParseInt(text, 0, 64): base 0 takes a leading "0" as the octal
\* prefix.  The literals of the model are far shorter than 19 digits, so the
\* range error of a 64-bit result does not arise.
ParseIntBase0(text) ==
    LET body == StripSign(text)
        octal == body # <<>> /\ body[1] = "0"
        base == IF octal THEN 8 ELSE 10
        ds == IF octal THEN Tail(body) ELSE body
        ok == /\ body # <<>>
              /\ \A i \in 1..Len(ds) : ds[i] \in Digits /\ DigitVal(ds[i]) < base
        mag == DigitsValue(ds, base)
    IN  IF ok THEN [ok |-> TRUE, v |-> IF IsNeg(text) THEN -mag ELSE mag]
        ELSE [ok |-> FALSE, v |-> 0]

\* a decimal value m / 10^e with no trailing zero in the fraction
RECURSIVE NormFloat(_, _)
NormFloat(m, e) ==
    IF e > 0 /\ m % 10 = 0 THEN NormFloat(m \div 10, e - 1) ELSE [m |-> m, e |-> e]

\* strconv.ParseFloat(text, 64) on decimal text: the value as mantissa m and
\* count e of fraction digits (binary rounding is not modelled)
ParseFloat(text) ==
    LET body == StripSign(text)
        dot == SkipSet(body, 0, Digits)
        int == SubSeq(body, 1, dot)
        frac == IF dot < Len(body) THEN SubSeq(body, dot + 2, Len(body)) ELSE <<>>
        ok == /\ Len(int) + Len(frac) > 0
              /\ \A i \in 1..Len(frac) : frac[i] \in Digits
              /\ dot < Len(body) => body[dot + 1] = "."
        n == NormFloat(DigitsValue(int \o frac, 10), Len(frac))
    IN  IF ok THEN [ok |-> TRUE, v |-> [m |-> IF IsNeg(text) THEN -n.m ELSE n.m, e |-> n.e]]
        ELSE [ok |-> FALSE, v |-> [m |-> 0, e |-> 0]]

\* the escapes of a double-quoted literal that the model's texts use; "\q" is
\* one strconv rejects
RECURSIVE UnquoteBody(_)
UnquoteBody(b) ==
    IF b = <<>> THEN [ok |-> TRUE, v |-> <<>>]
    ELSE IF b[1] = BSLASH
         THEN IF Len(b) < 2 \/ b[2] \notin {"n", "r", "t", BSLASH, QUOTE}
              THEN [ok |-> FALSE, v |-> <<>>]
              ELSE LET c == CASE b[2] = "n" -> NL [] b[2] = "r" -> CR
                              [] b[2] = "t" -> TAB [] OTHER -> b[2]
                       rest == UnquoteBody(SubSeq(b, 3, Len(b)))
                   IN  [ok |-> rest.ok, v |-> <<c>> \o rest.v]
         ELSE IF b[1] = QUOTE \/ b[1] = NL
              THEN [ok |-> FALSE, v |-> <<>>]
              ELSE LET rest == UnquoteBody(Tail(b))
                   IN  [ok |-> rest.ok, v |-> <<b[1]>> \o rest.v]

\* strconv.Unquote(val) for a double-quoted val
Unquote(val) ==
    IF Len(val) < 2 \/ val[1] # QUOTE \/ val[Len(val)] # QUOTE
    THEN [ok |-> FALSE, v |-> <<>>]
    ELSE UnquoteBody(SubSeq(val, 2, Len(val) - 1))

DaysIn(month, year) ==
    CASE month = 2 ->
            IF year % 4 = 0 /\ (year % 100 # 0 \/ year % 400 = 0) THEN 29 ELSE 28
      [] month \in {4, 6, 9, 11} -> 30
      [] OTHER -> 31

\* time.Parse(time.RFC3339, val) for val of the scanner's date-time layout:
\* the fields must be in range; the time is kept as its UTC text
TimeParse(val) ==
    LET num(a, b) == DigitsValue(SubSeq(val, a, b), 10)
        year == num(1, 4)
        month == num(6, 7)
        day == num(9, 10)
        ok == /\ month \in 1..12
              /\ day \in 1..DaysIn(month, year)
              /\ num(12, 13) \in 0..23
              /\ num(15, 16) \in 0..59
              /\ num(18, 19) \in 0..59
    IN  [ok |-> ok, v |-> IF ok THEN val ELSE <<>>]

(***************************************************************************)
(* Nodes (node.go).  A *ListNode is the record [Pos, Nodes].               *)
(***************************************************************************)
newList(pos) == [Pos |-> pos, Nodes |-> <<>>]

append(l, n) == [l EXCEPT !.Nodes = Append(@, n)]

newEntryGroup(pos, keyGroup, entries) ==
    [NodeType |-> "NodeEntryGroup", Pos |-> pos, KeyGroup |-> keyGroup,
     Entries |-> entries]

newKeyGroup(pos, keys, text) ==
    [NodeType |-> "NodeKeyGroup", Pos |-> pos, Keys |-> keys, Text |-> text]

newEntry(pos, key, value) ==
    [NodeType |-> "NodeEntry", Pos |-> pos, Key |-> key, Value |-> value]

newKey(pos, key) == [NodeType |-> "NodeKey", Pos |-> pos, Key |-> key]

newBool(pos, true) == [NodeType |-> "NodeBool", Pos |-> pos, True |-> true]

newString(pos, text, orig) ==
    [NodeType |-> "NodeString", Pos |-> pos, Text |-> text, Quoted |-> orig]

\* newNumber: ParseInt first, ParseFloat only if that failed
newNumber(pos, text) ==
    LET n == [NodeType |-> "NodeNumber", Pos |-> pos, Text |-> text,
              IsInt |-> FALSE, IsFloat |-> FALSE, Int |-> 0,
              Float |-> [m |-> 0, e |-> 0]]
        i == ParseIntBase0(text)
        f == ParseFloat(text)
    IN  IF i.ok THEN [ok |-> TRUE, n |-> [n EXCEPT !.IsInt = TRUE, !.Int = i.v]]
        ELSE IF f.ok THEN [ok |-> TRUE, n |-> [n EXCEPT !.IsFloat = TRUE, !.Float = f.v]]
        ELSE [ok |-> FALSE, n |-> n]

newDatetime(pos, time) == [NodeType |-> "NodeDatetime", Pos |-> pos, Time |-> time]

newArray(pos, array) == [NodeType |-> "NodeArray", Pos |-> pos, Array |-> array]

\* strings.Split(name, ".")
RECURSIVE SplitDot(_)
SplitDot(name) ==
    LET q == SkipSet(name, 0, Letters \cup Digits \cup {"_"})
    IN  IF q >= Len(name) THEN <<name>>
        ELSE <<SubSeq(name, 1, q)>> \o SplitDot(SubSeq(name, q + 2, Len(name)))

\* parseKeyGroup: "[foo.bar]" to the KeyGroupNode of the keys foo, bar
parseKeyGroup(tok) ==
    LET text == tok.val
        name == SubSeq(text, 2, Len(text) - 1)
        parts == SplitDot(name)
        keys == [Pos |-> tok.pos + 1,
                 Nodes |-> [i \in 1..Len(parts) |->
                               newKey(tok.pos + Len(parts[i]), parts[i])]]
    IN  newKeyGroup(tok.pos, keys, text)

\* KeyGroupNode.StringKeys
StringKeys(g) == [i \in 1..Len(g.Keys.Nodes) |-> g.Keys.Nodes[i].Key]

(***************************************************************************)
(* The parser (Parse and the Tree methods).  t is the Tree (Root is <<>>   *)
(* for nil, else <<list>>) with lexer.lastPos, which only the parser's     *)
(* task touches.  pc names the token operation the parser is about to      *)
(* make; stack holds the open calls of entryGroup, entry and array.        *)
(***************************************************************************)
TokZero == [typ |-> tokenError, pos |-> 0, val |-> <<>>]

NewTree ==
    [Root |-> <<>>, token |-> <<TokZero, TokZero, TokZero>>, peekCount |-> 0,
     lastPos |-> 0]

\* lexer.nextToken can complete: a pushed-back token or a sender on the channel
CanTake == t.peekCount > 0 \/ tokens # <<>>

\* the token operation receives from the channel
Receives == t.peekCount = 0

\* lexer.nextToken: token := <-l.tokens; l.lastPos = token.pos
nextToken(tt) == [tt EXCEPT !.token[1] = Head(tokens), !.lastPos = Head(tokens).pos]

\* Tree.next: the Tree after the call; the token returned is Cur of it
next(tt) ==
    IF tt.peekCount > 0 THEN [tt EXCEPT !.peekCount = @ - 1] ELSE nextToken(tt)

Cur(tt) == tt.token[tt.peekCount + 1]

\* Tree.peek: the Tree after the call; the token returned is Peeked of it
peek(tt) ==
    IF tt.peekCount > 0 THEN tt ELSE [nextToken(tt) EXCEPT !.peekCount = 1]

Peeked(tt) == tt.token[tt.peekCount]

\* a backup that does not keep the token
backupForgets(tt) == tt

\* Tree.backup
backup(tt) == [tt EXCEPT !.peekCount = @ + 1]

\* the sender's side of a completed handoff: emit goes on to l.start = l.pos
ResumeStops(l) ==
    [l EXCEPT !.blocked = FALSE, !.inEmit = FALSE, !.state = "nil"]

Resume(l) ==
    [l EXCEPT !.blocked = FALSE, !.inEmit = FALSE,
              !.start = IF l.inEmit THEN l.pos ELSE @]

RECURSIVE CountNL(_)
CountNL(s) ==
    IF s = <<>> THEN 0 ELSE (IF s[1] = NL THEN 1 ELSE 0) + CountNL(Tail(s))

\* lexer.lineNumber
lineNumber(tt) == 1 + CountNL(Slice(input, 0, tt.lastPos))

\* outcomes of a parser step
Go(tt, p, st) == [t |-> tt, pc |-> p, stack |-> st, perr |-> <<>>, ptree |-> <<>>]

\* an errorf that would leave Parse's tree result set
TerrorfKeepsTree(tt, msg) ==
    [t |-> tt, pc |-> "parse_ret", stack |-> <<>>,
     perr |-> <<[e |-> "syntax error", line |-> lineNumber(tt), msg |-> msg]>>,
     ptree |-> <<[Root |-> tt.Root]>>]

\* Tree.errorf: t.Root = nil and panic; parseRecover stores the error, and
\* Parse returns its named results, tree still nil
Terrorf(tt, msg) ==
    [t |-> [tt EXCEPT !.Root = <<>>], pc |-> "parse_ret", stack |-> <<>>,
     perr |-> <<[e |-> "syntax error", line |-> lineNumber(tt), msg |-> msg]>>,
     ptree |-> <<>>]

\* Parse: return t, nil
ParseReturn(tt) ==
    [t |-> tt, pc |-> "parse_ret", stack |-> <<>>, perr |-> <<>>,
     ptree |-> <<[Root |-> tt.Root]>>]

Top(st) == st[Len(st)]
Pop(st) == SubSeq(st, 1, Len(st) - 1)

\* a value node is returned by Tree.value to the call on top of the stack:
\* Tree.array keeps it until the separator is checked; Tree.entry builds the
\* entry, which entryGroup appends to its entries and Tree.parse to the Root
Return(tt, st, node) ==
    IF Top(st).f = "array"
    THEN Go(tt, "array_elem", [st EXCEPT ![Len(st)].node = <<node>>])
    ELSE LET e == newEntry(Top(st).tok.pos, Top(st).key, node)
             st1 == Pop(st)
         IN  IF st1 # <<>>
             THEN Go(tt, "entryGroup_loop",
                     [st1 EXCEPT ![Len(st1)].entries = append(@, e)])
             ELSE Go([tt EXCEPT !.Root = <<append(tt.Root[1], e)>>], "parse_loop", st1)

\* a step of the parser at `at` with outcome r; it completes the handoff if
\* the token came from the channel
ParserStep(at, r) ==
    /\ pc = at
    /\ CanTake
    /\ t' = r.t
    /\ pc' = r.pc
    /\ stack' = r.stack
    /\ perr' = r.perr
    /\ ptree' = r.ptree
    /\ tokens' = IF Receives THEN <<>> ELSE tokens
    /\ received' = IF Receives THEN Append(received, Head(tokens)) ELSE received
    /\ lx' = IF Receives THEN Resume(lx) ELSE lx
    /\ UNCHANGED <<doc, ttype, input, sent, d, newv, target, uerr>>

\* Tree.parse: t.Root = newList(t.peek().pos)
TreeParse ==
    ParserStep("parse",
        LET tp == peek(t)
        IN  Go([tp EXCEPT !.Root = <<newList(Peeked(tp).pos)>>], "parse_loop", stack))

\* Tree.parse: for t.peek().typ != tokenEOF
TreeParseLoop ==
    ParserStep("parse_loop",
        LET tp == peek(t)
        IN  IF Peeked(tp).typ = tokenEOF THEN ParseReturn(tp) ELSE Go(tp, "top", stack))

\* Tree.top: switch tok := t.peekNonSpace()
TreeTop ==
    ParserStep("top",
        LET tn == next(t)
            tok == Cur(tn)
            tb == backup(tn)
        IN  CASE tok.typ = tokenSpace -> Go(tn, "top", stack)
              [] tok.typ = tokenError -> Go(tb, "top_error", stack)
              [] tok.typ = tokenKeyGroup -> Go(tb, "entryGroup", stack)
              [] tok.typ = tokenKey -> Go(tb, "entry", stack)
              [] OTHER -> Terrorf(tb, "unexpected"))

\* Tree.top, case tokenError: t.nextNonSpace(); t.errorf("%s", tok.val)
TreeTopError ==
    ParserStep("top_error",
        LET tn == next(t)
            tok == Cur(tn)
        IN  IF tok.typ = tokenSpace THEN Go(tn, "top_error", stack)
            ELSE Terrorf(tn, Head(tok.val)))

\* Tree.entryGroup: token := t.nextNonSpace(); keyGroup := parseKeyGroup(token)
TreeEntryGroup ==
    ParserStep("entryGroup",
        LET tn == next(t)
            tok == Cur(tn)
        IN  IF tok.typ = tokenSpace THEN Go(tn, "entryGroup", stack)
            ELSE Go(tn, "entryGroup_list",
                    Append(stack, [f |-> "entryGroup", token |-> tok,
                                   keyGroup |-> parseKeyGroup(tok),
                                   entries |-> newList(0)])))

\* Tree.entryGroup: entries := newList(t.peek().pos)
TreeEntryGroupList ==
    ParserStep("entryGroup_list",
        LET tp == peek(t)
        IN  Go(tp, "entryGroup_loop",
               [stack EXCEPT ![Len(stack)].entries = newList(Peeked(tp).pos)]))

TreeEntryGroupLoopEmpty ==
    ParserStep("entryGroup_loop",
        LET tn == next(t)
            tok == Cur(tn)
            tb == backup(tn)
            fr == Top(stack)
        IN  CASE tok.typ = tokenSpace -> Go(tn, "entryGroup_loop", stack)
              [] OTHER ->
                    Go([tb EXCEPT !.Root =
                           <<append(tb.Root[1],
                                    newEntryGroup(fr.token.pos, fr.keyGroup, fr.entries))>>],
                       "parse_loop", Pop(stack)))

\* Tree.entryGroup: the loop over the entries, and the return to Tree.parse
TreeEntryGroupLoop ==
    ParserStep("entryGroup_loop",
        LET tn == next(t)
            tok == Cur(tn)
            tb == backup(tn)
            fr == Top(stack)
        IN  CASE tok.typ = tokenSpace -> Go(tn, "entryGroup_loop", stack)
              [] tok.typ = tokenKey -> Go(tb, "entry", stack)
              [] OTHER ->
                    Go([tb EXCEPT !.Root =
                           <<append(tb.Root[1],
                                    newEntryGroup(fr.token.pos, fr.keyGroup, fr.entries))>>],
                       "parse_loop", Pop(stack)))

\* Tree.entry: tok := t.nextNonSpace(); key := newKey(tok.pos, tok.val)
TreeEntry ==
    ParserStep("entry",
        LET tn == next(t)
            tok == Cur(tn)
        IN  IF tok.typ = tokenSpace THEN Go(tn, "entry", stack)
            ELSE Go(tn, "entry_sep",
                    Append(stack, [f |-> "entry", tok |-> tok,
                                   key |-> newKey(tok.pos, tok.val)])))

\* Tree.entry: t.expect(tokenKeySep, "key seperator")
TreeEntrySep ==
    ParserStep("entry_sep",
        LET tn == next(t)
            tok == Cur(tn)
        IN  CASE tok.typ = tokenSpace -> Go(tn, "entry_sep", stack)
              [] tok.typ = tokenKeySep -> Go(tn, "value", stack)
              [] OTHER -> Terrorf(tn, "unexpected in key seperator"))

\* Tree.value
TreeValue ==
    ParserStep("value",
        LET tn == next(t)
            tok == Cur(tn)
            num == newNumber(tok.pos, tok.val)
            str == Unquote(tok.val)
            tim == TimeParse(tok.val)
        IN  CASE tok.typ = tokenSpace -> Go(tn, "value", stack)
              [] tok.typ = tokenBool ->
                    Return(tn, stack, newBool(tok.pos, tok.val = <<"t", "r", "u", "e">>))
              [] tok.typ = tokenNumber ->
                    IF num.ok THEN Return(tn, stack, num.n)
                    ELSE Terrorf(tn, "illegal number syntax")
              [] tok.typ = tokenString ->
                    IF str.ok THEN Return(tn, stack, newString(tok.pos, str.v, tok.val))
                    ELSE Terrorf(tn, "invalid syntax")
              [] tok.typ = tokenDatetime ->
                    IF tim.ok THEN Return(tn, stack, newDatetime(tok.pos, tim.v))
                    ELSE Terrorf(tn, "parsing time")
              [] tok.typ = tokenArrayStart -> Go(tn, "array", stack)
              [] OTHER -> Terrorf(tn, "unexpected in value"))

\* Tree.array: pos := t.peek().pos; array := newList(pos)
TreeArray ==
    ParserStep("array",
        LET tp == peek(t)
            pos == Peeked(tp).pos
        IN  Go(tp, "array_loop",
               Append(stack, [f |-> "array", pos |-> pos, array |-> newList(pos),
                              node |-> <<>>])))

\* Tree.array: switch tok := t.peekNonSpace()
TreeArrayLoop ==
    ParserStep("array_loop",
        LET tn == next(t)
            tok == Cur(tn)
            tb == backup(tn)
        IN  CASE tok.typ = tokenSpace -> Go(tn, "array_loop", stack)
              [] tok.typ = tokenArrayEnd -> Go(tb, "array_end", stack)
              [] OTHER -> Go(tb, "value", stack))

\* Tree.array, case tokenArrayEnd: t.nextNonSpace(); break; return newArray
TreeArrayEnd ==
    ParserStep("array_end",
        LET tn == next(t)
            tok == Cur(tn)
            fr == Top(stack)
        IN  IF tok.typ = tokenSpace THEN Go(tn, "array_end", stack)
            ELSE Return(tn, Pop(stack), newArray(fr.pos, fr.array)))

\* Tree.array: if t.peekNonSpace().typ != tokenArrayEnd, after an element
TreeArrayElem ==
    ParserStep("array_elem",
        LET tn == next(t)
            tok == Cur(tn)
            tb == backup(tn)
            fr == Top(stack)
        IN  CASE tok.typ = tokenSpace -> Go(tn, "array_elem", stack)
              [] tok.typ = tokenArrayEnd ->
                    Go(tb, "array_loop",
                       [stack EXCEPT ![Len(stack)] =
                           [fr EXCEPT !.array = append(@, fr.node[1]), !.node = <<>>]])
              [] OTHER -> Go(tb, "array_sep", stack))

\* a Tree.array that wants an element after every separator
TreeArraySepThenValue ==
    ParserStep("array_sep",
        LET tn == next(t)
            tok == Cur(tn)
            fr == Top(stack)
        IN  CASE tok.typ = tokenSpace -> Go(tn, "array_sep", stack)
              [] tok.typ = tokenArraySep ->
                    Go(tn, "value",
                       [stack EXCEPT ![Len(stack)] =
                           [fr EXCEPT !.array = append(@, fr.node[1]), !.node = <<>>]])
              [] OTHER -> Terrorf(tn, "unexpected in array"))

\* Tree.array: t.expect(tokenArraySep, "array"); array.append(node)
TreeArraySep ==
    ParserStep("array_sep",
        LET tn == next(t)
            tok == Cur(tn)
            fr == Top(stack)
        IN  CASE tok.typ = tokenSpace -> Go(tn, "array_sep", stack)
              [] tok.typ = tokenArraySep ->
                    Go(tn, "array_loop",
                       [stack EXCEPT ![Len(stack)] =
                           [fr EXCEPT !.array = append(@, fr.node[1]), !.node = <<>>]])
              [] OTHER -> Terrorf(tn, "unexpected in array"))

\* one iteration of the loop of lexer.run, up to the send if it makes one
LexStep ==
    /\ lx.state # "nil"
    /\ ~lx.blocked
    /\ LET r == RunState(input, lx)
       IN  /\ lx' = r.l
           /\ tokens' = r.out
           /\ sent' = sent \o r.out
    /\ UNCHANGED <<doc, ttype, input, received, t, pc, stack, perr, ptree, d, newv,
                   target, uerr>>

(***************************************************************************)
(* Go types and values as reflect sees them.  A type is a record with its  *)
(* Kind k: "interface" (the empty interface), "bool", "string", "int"      *)
(* (with bits), "uint", "float", "slice" and "array" (with elem; array     *)
(* with len), "map" (string keys, with elem) and "struct" (with name and   *)
(* fields, each with name, tag and type).  A value is a record with the    *)
(* kind k of what is stored and its content v.                             *)
(***************************************************************************)
TIface == [k |-> "interface"]
TBool == [k |-> "bool"]
TString == [k |-> "string"]
TInt == [k |-> "int", bits |-> 64]
TInt8 == [k |-> "int", bits |-> 8]
TInt16 == [k |-> "int", bits |-> 16]
TUint == [k |-> "uint", bits |-> 64]
TFloat == [k |-> "float", bits |-> 64]
TSlice(elem) == [k |-> "slice", elem |-> elem]
TArray(n, elem) == [k |-> "array", len |-> n, elem |-> elem]
TMap(elem) == [k |-> "map", elem |-> elem]
TStruct(name, fields) == [k |-> "struct", name |-> name, fields |-> fields]
Field(name, tag, type) == [name |-> name, tag |-> tag, type |-> type]

\* timeType = reflect.TypeOf(time.Time{}): a struct whose fields are unexported
timeType ==
    TStruct("time.Time", <<Field(<<"w", "a", "l", "l">>, <<>>, TUint),
                           Field(<<"e", "x", "t">>, <<>>, TInt)>>)

\* make(map[string]interface{})
TMapIface == TMap(TIface)

NilValue == [k |-> "nil"]

RECURSIVE Zero(_)
Zero(T) ==
    CASE T.k = "interface" -> NilValue
      [] T.k = "bool" -> [k |-> "bool", v |-> FALSE]
      [] T.k = "string" -> [k |-> "string", v |-> <<>>]
      [] T.k = "int" -> [k |-> "int", v |-> 0]
      [] T.k = "uint" -> [k |-> "uint", v |-> 0]
      [] T.k = "float" -> [k |-> "float", v |-> [m |-> 0, e |-> 0]]
      [] T.k = "slice" -> [k |-> "slice", v |-> <<>>]
      [] T.k = "array" -> [k |-> "array", v |-> [i \in 1..T.len |-> Zero(T.elem)]]
      [] T.k = "map" -> [k |-> "map", nil |-> TRUE, v |-> <<>>]
      [] T = timeType -> [k |-> "time", v |-> <<>>]
      [] OTHER -> [k |-> "struct",
                   v |-> [i \in 1..Len(T.fields) |-> Zero(T.fields[i].type)]]

MakeMap == [k |-> "map", nil |-> FALSE, v |-> <<>>]

\* a step of the way from the root value to a part of it: field i of a struct
\* (i > 0) or the element of a map under key (i = 0)
FieldStep(i) == [i |-> i, key |-> <<>>]
KeyStep(key) == [i |-> 0, key |-> key]

RECURSIVE GetAt(_, _)
GetAt(val, path) ==
    IF path = <<>> THEN val
    ELSE IF path[1].i > 0 THEN GetAt(val.v[path[1].i], Tail(path))
    ELSE GetAt(val.v[path[1].key], Tail(path))

RECURSIVE SetAt(_, _, _)
SetAt(val, path, new) ==
    IF path = <<>> THEN new
    ELSE IF path[1].i > 0
         THEN [val EXCEPT !.v[path[1].i] = SetAt(@, Tail(path), new)]
         ELSE [val EXCEPT !.v[path[1].key] = SetAt(@, Tail(path), new)]

\* Value.SetMapIndex(key, elem) on a non-nil map
SetMapIndex(m, key, elem) ==
    [m EXCEPT !.v = (key :> elem) @@ @]

UpperCase == <<"A", "B", "C", "D", "E", "F", "G", "H", "I", "J", "K", "L", "M",
               "N", "O", "P", "Q", "R", "S", "T", "U", "V", "W", "X", "Y", "Z">>
LowerCase == <<"a", "b", "c", "d", "e", "f", "g", "h", "i", "j", "k", "l", "m",
               "n", "o", "p", "q", "r", "s", "t", "u", "v", "w", "x", "y", "z">>

Fold(c) ==
    IF \E i \in 1..Len(UpperCase) : UpperCase[i] = c
    THEN LowerCase[CHOOSE i \in 1..Len(UpperCase) : UpperCase[i] = c]
    ELSE c

\* strings.EqualFold on the model's ASCII text
EqualFold(a, b) ==
    /\ Len(a) = Len(b)
    /\ \A i \in 1..Len(a) : Fold(a[i]) = Fold(b[i])

\* Value.CanSet of a field of an addressable struct: the field is exported
CanSet(f) == f.name # <<>> /\ \E i \in 1..Len(UpperCase) : UpperCase[i] = f.name[1]

(***************************************************************************)
(* The decoder (Unmarshal and the decode methods).  An operator yields the *)
(* outcome st ("ok", "notfound", "error" with err, or "crash" for a panic  *)
(* that Unmarshal's recover does not turn into an error) and the storage   *)
(* as the call left it.                                                    *)
(***************************************************************************)
UnmarshalTypeError(value, type) ==
    [e |-> "UnmarshalTypeError", Value |-> value, Type |-> type]

\* Value.SetInt: the 64-bit value truncated to the width of the kind
SetIntKeeps(x, bits) == x

SetInt(x, bits) ==
    IF bits >= 64 THEN x
    ELSE LET m == 2 ^ bits
             h == 2 ^ (bits - 1)
         IN  ((x + h) % m) - h

\* the fields findField's loop accepts for key, in the order of the loop
FieldMatches(T, key) ==
    {i \in 1..Len(T.fields) :
        LET tf == T.fields[i]
            name == IF tf.tag = <<>> THEN tf.name ELSE tf.tag
        IN  (name = key \/ EqualFold(name, key)) /\ CanSet(tf)}

Min(S) == CHOOSE x \in S : \A y \in S : x <= y

\* a Number case that would convert between integer and float
valueNumberConverts(T, cur, node) ==
    LET ok(new) == [st |-> "ok", v |-> new, err |-> <<>>]
        error(what) == [st |-> "error", v |-> cur, err |-> <<UnmarshalTypeError(what, T)>>]
    IN  CASE T.k = "int" ->
                IF ~node.IsInt
                THEN ok([k |-> "int", v |-> node.Float.m \div (10 ^ node.Float.e)])
                ELSE ok([k |-> "int", v |-> SetInt(node.Int, T.bits)])
          [] T.k = "float" ->
                IF ~node.IsFloat THEN ok([k |-> "float", v |-> [m |-> node.Int, e |-> 0]])
                ELSE ok([k |-> "float", v |-> node.Float])
          [] T.k = "interface" ->
                IF node.IsInt THEN ok([k |-> "int", v |-> node.Int])
                ELSE ok([k |-> "float", v |-> node.Float])
          [] OTHER -> error("number")

\* decode.value, case *NumberNode
valueNumber(T, cur, node) ==
    LET ok(new) == [st |-> "ok", v |-> new, err |-> <<>>]
        error(what) == [st |-> "error", v |-> cur, err |-> <<UnmarshalTypeError(what, T)>>]
    IN  CASE T.k = "int" ->
                IF ~node.IsInt THEN error("int")
                ELSE ok([k |-> "int", v |-> SetInt(node.Int, T.bits)])
          [] T.k = "float" ->
                IF ~node.IsFloat THEN error("float")
                ELSE ok([k |-> "float", v |-> node.Float])
          [] T.k = "interface" ->
                IF node.IsInt THEN ok([k |-> "int", v |-> node.Int])
                ELSE ok([k |-> "float", v |-> node.Float])
          [] OTHER -> error("number")

RECURSIVE value(_, _, _)
RECURSIVE valueElems(_, _, _, _)
RECURSIVE valueElemsBackwards(_, _, _, _)

\* decode.value, case *ArrayNode on a slice or array: for i, subn := range
\* a loop that decodes the elements onto the positions from the last to the first
valueElemsBackwards(T, vals, nodes, i) ==
    IF i > Len(nodes) THEN [st |-> "ok", v |-> vals, err |-> <<>>]
    ELSE LET at == Len(nodes) + 1 - i
             r == value(T, vals[at], nodes[i])
             vals1 == [vals EXCEPT ![at] = r.v]
         IN  IF r.st # "ok" THEN [st |-> r.st, v |-> vals1, err |-> r.err]
             ELSE valueElemsBackwards(T, vals1, nodes, i + 1)

valueElems(T, vals, nodes, i) ==
    IF i > Len(nodes) THEN [st |-> "ok", v |-> vals, err |-> <<>>]
    ELSE LET r == value(T, vals[i], nodes[i])
             vals1 == [vals EXCEPT ![i] = r.v]
         IN  IF r.st # "ok" THEN [st |-> r.st, v |-> vals1, err |-> r.err]
             ELSE valueElems(T, vals1, nodes, i + 1)

\* decode.value(v, node) for v of type T holding cur
value(T, cur, node) ==
    LET ok(new) == [st |-> "ok", v |-> new, err |-> <<>>]
        error(what) == [st |-> "error", v |-> cur, err |-> <<UnmarshalTypeError(what, T)>>]
    IN  CASE node.NodeType = "NodeBool" ->
                CASE T.k = "bool" -> ok([k |-> "bool", v |-> node.True])
                  [] T.k = "interface" -> ok([k |-> "bool", v |-> node.True])
                  [] OTHER -> error("bool")
          [] node.NodeType = "NodeString" ->
                CASE T.k = "string" -> ok([k |-> "string", v |-> node.Text])
                  [] T.k = "interface" -> ok([k |-> "string", v |-> node.Text])
                  [] OTHER -> error("string")
          [] node.NodeType = "NodeNumber" -> valueNumber(T, cur, node)
          [] node.NodeType = "NodeDatetime" ->
                CASE T.k = "struct" /\ T = timeType -> ok([k |-> "time", v |-> node.Time])
                  [] T.k = "interface" -> ok([k |-> "time", v |-> node.Time])
                  [] OTHER -> error("datetime")
          [] node.NodeType = "NodeArray" ->
                LET nodes == node.Array.Nodes
                    l == Len(nodes)
                IN  CASE T.k = "interface" ->
                            LET r == valueElems(TIface, [i \in 1..l |-> NilValue], nodes, 1)
                            IN  IF r.st = "ok" THEN ok([k |-> "slice", v |-> r.v])
                                ELSE [st |-> r.st, v |-> cur, err |-> r.err]
                      [] T.k \in {"array", "slice"} ->
                            IF Len(cur.v) < l /\ T.k = "array"
                            THEN [st |-> "error", v |-> cur,
                                  err |-> <<[e |-> "errorf", Value |-> "run out of fixed array",
                                             Type |-> T]>>]
                            ELSE LET grown ==
                                         IF Len(cur.v) < l
                                         THEN [i \in 1..l |->
                                                 IF i <= Len(cur.v) THEN cur.v[i]
                                                 ELSE Zero(T.elem)]
                                         ELSE cur.v
                                     r == valueElems(T.elem, grown, nodes, 1)
                                 IN  [st |-> r.st, v |-> [cur EXCEPT !.v = r.v], err |-> r.err]
                      [] OTHER -> error("array")

\* a map[string]interface{} can be stored as an element of this map type
MapAssignable(elem) == elem = TIface \/ elem = TMapIface

\* decode.findField(context, v, key), v of type T at path in the root w: st,
\* the root as the call left it, and the path and type of the value returned
findField(context, w, path, T, key) ==
    LET cur == GetAt(w, path)
        none == [st |-> "notfound", w |-> w, path |-> path, type |-> T, err |-> <<>>]
    IN  CASE T.k = "map" ->
                LET w1 == IF cur.nil THEN SetAt(w, path, MakeMap) ELSE w
                IN  IF context = "keygroup"
                    THEN IF MapAssignable(T.elem)
                         THEN [none EXCEPT !.st = "ok",
                                  !.w = SetAt(w1, path, SetMapIndex(GetAt(w1, path), key, MakeMap)),
                                  !.path = Append(path, KeyStep(key)),
                                  !.type = TMapIface]
                         ELSE [none EXCEPT !.st = "crash", !.w = w1]
                    ELSE [none EXCEPT !.st = "ok", !.w = w1, !.type = T.elem]
          [] T.k = "struct" ->
                LET m == FieldMatches(T, key)
                IN  IF m = {} THEN none
                    ELSE [none EXCEPT !.st = "ok",
                                      !.path = Append(path, FieldStep(Min(m))),
                                      !.type = T.fields[Min(m)].type]
          [] OTHER ->
                [none EXCEPT !.st = "error", !.err = <<UnmarshalTypeError(context, T)>>]

\* decode.top, case *EntryGroupNode: for _, key := range StringKeys()
RECURSIVE keyGroupFields(_, _, _, _, _)
keyGroupFields(w, path, T, keys, i) ==
    IF i > Len(keys)
    THEN [st |-> "ok", w |-> w, path |-> path, type |-> T, err |-> <<>>]
    ELSE LET r == findField("keygroup", w, path, T, keys[i])
         IN  IF r.st # "ok" THEN r
             ELSE keyGroupFields(r.w, r.path, r.type, keys, i + 1)

\* decode.entry(v, node), v of type T at path in the root w
entry(w, path, T, node) ==
    LET key == node.Key.Key
        f == findField("entry", w, path, T, key)
    IN  IF f.st # "ok" THEN [st |-> f.st, w |-> f.w, err |-> f.err]
        ELSE IF T.k = "map"
             THEN LET r == value(f.type, Zero(f.type), node.Value)
                  IN  IF r.st # "ok" THEN [st |-> r.st, w |-> f.w, err |-> r.err]
                      ELSE [st |-> "ok", err |-> <<>>,
                            w |-> SetAt(f.w, path,
                                        SetMapIndex(GetAt(f.w, path), key, r.v))]
             ELSE LET r == value(f.type, GetAt(f.w, f.path), node.Value)
                  IN  [st |-> r.st, w |-> SetAt(f.w, f.path, r.v), err |-> r.err]

(***************************************************************************)
(* The texts the model runs on.  A text is the concatenation of at most    *)
(* MaxFrags fragments; a fragment is a piece of a document (an entry, a    *)
(* section with an entry, a blank or comment line, a malformed line) and   *)
(* carries what it stands for: its class ("scalar": a top-level entry with *)
(* a scalar value, "zeroled": one whose number has a leading zero,         *)
(* "array", "trailing": an array with a separator before its close,       *)
(* "section": a header with one entry, "noise": blank and comment lines,   *)
(* "bad": malformed), and for an entry the header's keys hdr, the key and  *)
(* the value written.                                                      *)
(***************************************************************************)
MaxFrags == 2

DInt(n) == [k |-> "int", v |-> n]
DFloat(m, e) == [k |-> "float", v |-> [m |-> m, e |-> e]]
DBool(b) == [k |-> "bool", v |-> b]
DString(s) == [k |-> "string", v |-> s]
DTime(s) == [k |-> "time", v |-> s]
DSlice(s) == [k |-> "slice", v |-> s]

Fragment(text, class, hdr, key, val) ==
    [text |-> text, class |-> class, hdr |-> hdr, key |-> key, val |-> val]

Frag(name) ==
    CASE name = "x_int" ->
        Fragment(<<"x", " ", "=", " ", "3", NL>>,
                 "scalar", <<>>, <<"x">>, DInt(3))
      [] name = "x_float" ->
        Fragment(<<"x", " ", "=", " ", "3", ".", "0", NL>>,
                 "scalar", <<>>, <<"x">>, DFloat(3, 0))
      [] name = "x_bool" ->
        Fragment(<<"x", " ", "=", " ", "t", "r", "u", "e", NL>>,
                 "scalar", <<>>, <<"x">>, DBool(TRUE))
      [] name = "x_str" ->
        Fragment(<<"x", " ", "=", " ", QUOTE, "s", QUOTE, NL>>,
                 "scalar", <<>>, <<"x">>, DString(<<"s">>))
      [] name = "x_time" ->
        Fragment(<<"x", " ", "=", " ", "1", "9", "7", "9", "-", "0", "5", "-", "2", "7", "T", "0", "7", ":", "3", "2", ":", "0", "0", "Z", NL>>,
                 "scalar", <<>>, <<"x">>, DTime(<<"1", "9", "7", "9", "-", "0", "5", "-", "2", "7", "T", "0", "7", ":", "3", "2", ":", "0", "0", "Z">>))
      [] name = "y_int" ->
        Fragment(<<"y", " ", "=", " ", "2", NL>>,
                 "scalar", <<>>, <<"y">>, DInt(2))
      [] name = "z_int" ->
        Fragment(<<"z", " ", "=", " ", "1", NL>>,
                 "scalar", <<>>, <<"z">>, DInt(1))
      [] name = "x_nosp" ->
        Fragment(<<"x", "=", "3", NL>>,
                 "scalar", <<>>, <<"x">>, DInt(3))
      [] name = "x_colon" ->
        Fragment(<<"x", " ", ":", "3", NL>>,
                 "scalar", <<>>, <<"x">>, DInt(3))
      [] name = "x_trail" ->
        Fragment(<<"x", " ", " ", "=", " ", " ", "3", " ", "#", " ", "c", NL>>,
                 "scalar", <<>>, <<"x">>, DInt(3))
      [] name = "x_neg" ->
        Fragment(<<"x", " ", "=", " ", "-", "5", NL>>,
                 "scalar", <<>>, <<"x">>, DInt(0 - 5))
      [] name = "x_oct" ->
        Fragment(<<"x", " ", "=", " ", "0", "1", "0", NL>>,
                 "zeroled", <<>>, <<"x">>, DInt(10))
      [] name = "blank" ->
        Fragment(<<NL>>,
                 "noise", <<>>, <<>>, NilValue)
      [] name = "comment" ->
        Fragment(<<"#", " ", "c", NL>>,
                 "noise", <<>>, <<>>, NilValue)
      [] name = "head" ->
        Fragment(<<NL, "#", " ", "c", NL, NL>>,
                 "noise", <<>>, <<>>, NilValue)
      [] name = "x_arr" ->
        Fragment(<<"x", " ", "=", " ", "[", "1", ",", " ", "2", "]", NL>>,
                 "array", <<>>, <<"x">>, DSlice(<<DInt(1), DInt(2)>>))
      [] name = "x_mixed" ->
        Fragment(<<"x", " ", "=", " ", "[", "1", ",", " ", QUOTE, "s", QUOTE, "]", NL>>,
                 "array", <<>>, <<"x">>, DSlice(<<DInt(1), DString(<<"s">>)>>))
      [] name = "a_x" ->
        Fragment(<<"[", "a", "]", NL, "x", " ", "=", " ", "1", NL>>,
                 "section", <<<<"a">>>>, <<"x">>, DInt(1))
      [] name = "b_y" ->
        Fragment(<<"[", "b", "]", NL, "y", " ", "=", " ", "2", NL>>,
                 "section", <<<<"b">>>>, <<"y">>, DInt(2))
      [] name = "q_x" ->
        Fragment(<<"[", "q", "]", NL, "x", " ", "=", " ", "1", NL>>,
                 "section", <<<<"q">>>>, <<"x">>, DInt(1))
      [] name = "owner_a" ->
        Fragment(<<"[", "o", "w", "n", "e", "r", "]", NL, "n", "a", "m", "e", " ", "=", " ", QUOTE, "a", QUOTE, NL>>,
                 "section", <<<<"o", "w", "n", "e", "r">>>>, <<"n", "a", "m", "e">>, DString(<<"a">>))
      [] name = "owner_b" ->
        Fragment(<<"[", "o", "w", "n", "e", "r", "]", NL, "n", "a", "m", "e", " ", "=", " ", QUOTE, "b", QUOTE, NL>>,
                 "section", <<<<"o", "w", "n", "e", "r">>>>, <<"n", "a", "m", "e">>, DString(<<"b">>))
      [] name = "badsep" ->
        Fragment(<<"x", " ", "?", " ", "3", NL>>,
                 "bad", <<>>, <<>>, NilValue)
      [] name = "unterminated" ->
        Fragment(<<"x", " ", "=", " ", QUOTE, "a", "b", NL>>,
                 "bad", <<>>, <<>>, NilValue)
      [] name = "badnum" ->
        Fragment(<<"x", " ", "=", " ", "5", "x", NL>>,
                 "bad", <<>>, <<>>, NilValue)
      [] name = "badgroup" ->
        Fragment(<<"[", "a", NL>>,
                 "bad", <<>>, <<>>, NilValue)
      [] name = "badtime" ->
        Fragment(<<"x", " ", "=", " ", "1", "9", "7", "9", "-", "1", "3", "-", "2", "7", "T", "0", "7", ":", "3", "2", ":", "0", "0", "Z", NL>>,
                 "bad", <<>>, <<>>, NilValue)
      [] name = "badquote" ->
        Fragment(<<"x", " ", "=", " ", QUOTE, "a", BSLASH, "q", "b", QUOTE, NL>>,
                 "bad", <<>>, <<>>, NilValue)
      [] name = "sign" ->
        Fragment(<<"x", " ", "=", " ", "-", NL>>,
                 "bad", <<>>, <<>>, NilValue)
      [] name = "two" ->
        Fragment(<<"x", " ", "=", " ", "1", " ", "2", NL>>,
                 "bad", <<>>, <<>>, NilValue)
      [] name = "x_one" ->
        Fragment(<<"x", " ", "=", " ", "[", "7", "]", NL>>,
                 "array", <<>>, <<"x">>, DSlice(<<DInt(7)>>))
      [] name = "arr_nest" ->
        Fragment(<<"x", " ", "=", " ", "[", "1", ",", " ", "[", "2", ",", " ", "3", "]", ",", " ", QUOTE, "s", QUOTE, "]", NL>>,
                 "array", <<>>, <<"x">>, DSlice(<<DInt(1), DSlice(<<DInt(2), DInt(3)>>), DString(<<"s">>)>>))
      [] name = "arr_time" ->
        Fragment(<<"x", " ", "=", " ", "[", "1", "9", "7", "9", "-", "0", "5", "-", "2", "7", "T", "0", "7", ":", "3", "2", ":", "0", "0", "Z", ",", " ", "5", ".", "0", "]", NL>>,
                 "array", <<>>, <<"x">>, DSlice(<<DTime(<<"1", "9", "7", "9", "-", "0", "5", "-", "2", "7", "T", "0", "7", ":", "3", "2", ":", "0", "0", "Z">>), DFloat(5, 0)>>))
      [] name = "arr_bool" ->
        Fragment(<<"x", " ", "=", " ", "[", "t", "r", "u", "e", ",", " ", "1", "]", NL>>,
                 "array", <<>>, <<"x">>, DSlice(<<DBool(TRUE), DInt(1)>>))
      [] name = "arr_nl" ->
        Fragment(<<"x", " ", "=", " ", "[", "1", ",", NL, " ", "2", "]", NL>>,
                 "array", <<>>, <<"x">>, DSlice(<<DInt(1), DInt(2)>>))
      [] name = "arr_trail" ->
        Fragment(<<"x", " ", "=", " ", "[", "1", ",", " ", "2", ",", "]", NL>>,
                 "trailing", <<>>, <<"x">>, DSlice(<<DInt(1), DInt(2)>>))
      [] name = "arr_trail_nl" ->
        Fragment(<<"x", " ", "=", " ", "[", "1", ",", " ", "2", ",", " ", "#", " ", "c", NL, "]", NL>>,
                 "trailing", <<>>, <<"x">>, DSlice(<<DInt(1), DInt(2)>>))
      [] name = "arr_nosep" ->
        Fragment(<<"x", " ", "=", " ", "[", "1", " ", "2", "]", NL>>,
                 "bad", <<>>, <<>>, NilValue)
      [] name = "arr_sepsep" ->
        Fragment(<<"x", " ", "=", " ", "[", "1", ",", ",", "2", "]", NL>>,
                 "bad", <<>>, <<>>, NilValue)
      [] name = "close0" ->
        Fragment(<<"x", " ", "=", " ", "1", "]", NL>>,
                 "bad", <<>>, <<>>, NilValue)
      [] name = "comma0" ->
        Fragment(<<"x", " ", "=", " ", "1", ",", " ", "2", NL>>,
                 "bad", <<>>, <<>>, NilValue)
      [] name = "unterm_eof" ->
        Fragment(<<"x", " ", "=", " ", QUOTE, "a", "b">>,
                 "bad", <<>>, <<>>, NilValue)
      [] name = "cr" ->
        Fragment(<<CR>>,
                 "line", <<>>, <<>>, NilValue)
      [] name = "crlf" ->
        Fragment(<<CR, NL>>,
                 "line", <<>>, <<>>, NilValue)
      [] name = "x_128" ->
        Fragment(<<"x", " ", "=", " ", "1", "2", "8", NL>>,
                 "wide", <<>>, <<"x">>, DInt(128))
      [] name = "x_300" ->
        Fragment(<<"x", " ", "=", " ", "3", "0", "0", NL>>,
                 "wide", <<>>, <<"x">>, DInt(300))
      [] name = "x_m200" ->
        Fragment(<<"x", " ", "=", " ", "-", "2", "0", "0", NL>>,
                 "wide", <<>>, <<"x">>, DInt(-200))
      [] name = "x_big" ->
        Fragment(<<"x", " ", "=", " ", "7", "0", "0", "0", "0", NL>>,
                 "wide", <<>>, <<"x">>, DInt(70000))
      [] name = "hdr_c" ->
        Fragment(<<"[", "c", "]", NL>>,
                 "section", <<<<"c">>>>, <<>>, NilValue)
      [] name = "c_gap" ->
        Fragment(<<"[", "c", "]", NL, NL>>,
                 "section", <<<<"c">>>>, <<>>, NilValue)
      [] name = "c_dash" ->
        Fragment(<<"#", " ", "-", NL>>,
                 "line", <<>>, <<>>, NilValue)
      [] name = "arr_dash" ->
        Fragment(<<"x", " ", "=", " ", "[", "1", ",", "2", ",", "-", "3", "]", NL>>,
                 "line", <<>>, <<>>, NilValue)
      [] name = "sign_dash" ->
        Fragment(<<"x", " ", "=", " ", "-", "1", "9", "7", "-", NL>>,
                 "line", <<>>, <<>>, NilValue)
      [] name = "date_short" ->
        Fragment(<<"x", " ", "=", " ", "1", "9", "7", "9", "-", "0", "5", NL>>,
                 "line", <<>>, <<>>, NilValue)
      [] name = "x_long" ->
        Fragment(<<"x", " ", "=", " ", "1", "2", "3", "4", "5", NL>>,
                 "line", <<>>, <<>>, NilValue)

\* fragments every target is decoded from: the entries and sections whose
\* keys the record targets have or lack
StructFrags ==
    {"x_int", "x_str", "y_int", "z_int", "a_x", "b_y", "q_x", "owner_a", "owner_b",
     "badsep"}

\* one entry of each kind of value, decoded onto a field of each kind
ValueFrags ==
    {"x_int", "x_float", "x_bool", "x_str", "x_time", "x_arr", "x_mixed", "y_int",
     "x_one"}

\* the array literals of the scanner and the parser, on a dynamic target
ArrayFrags ==
    {"x_int", "x_arr", "x_mixed", "arr_nest", "arr_time", "arr_bool", "arr_nl",
     "arr_trail", "arr_trail_nl", "arr_nosep", "arr_sepsep", "close0", "comma0",
     "unterm_eof"}

\* line ends as the start state of the scanner meets them, before and after
\* an entry, a boolean (after which the scanner is back in its start state)
\* and a comment
LineFrags == {"x_int", "x_bool", "blank", "comment", "cr", "crlf"}

\* values that start with a digit or a sign, with and without a '-' four
\* bytes after the first digit: in the literal, in a later element of the
\* array, in the comment on the next line
DateFrags ==
    {"x_int", "x_neg", "x_time", "x_long", "date_short", "sign_dash",
     "arr_dash", "c_dash"}

\* section headers with and without entries of their own, entries before
\* and after them, and the lines that may stand in between
GroupFrags ==
    {"x_int", "y_int", "x_bool", "a_x", "b_y", "hdr_c", "c_gap", "blank",
     "comment"}

\* integers that fit int8, int16 only, and neither
WideFrags == {"x_neg", "x_128", "x_300", "x_m200", "x_big"}

\* the scanner's and the parser's cases, decoded onto a dynamic target
TextFrags ==
    {"x_int", "x_float", "x_bool", "x_str", "x_time", "y_int",
     "x_nosp", "x_colon", "x_trail", "x_oct", "x_neg", "blank", "comment", "head",
     "x_arr", "a_x", "badsep", "unterminated", "badnum", "badgroup", "badtime",
     "badquote", "sign", "two"}

SeqsUpTo(S, n) == UNION {[1..k -> S] : k \in 0..n}

RECURSIVE Text(_)
Text(names) ==
    IF names = <<>> THEN <<>> ELSE Frag(names[1]).text \o Text(Tail(names))

\* the caller's types.  Rc of decode_test.go, widened: X of the kind under
\* test, Y, the sub-records A and B, and Owner with Name
TSubX == TStruct("A", <<Field(<<"X">>, <<>>, TInt)>>)
TSubY == TStruct("B", <<Field(<<"Y">>, <<>>, TInt)>>)
TOwner == TStruct("Owner", <<Field(<<"N", "a", "m", "e">>, <<>>, TString)>>)
TRc(K) ==
    TStruct("Rc", <<Field(<<"X">>, <<>>, K),
                    Field(<<"Y">>, <<>>, TInt),
                    Field(<<"A">>, <<>>, TSubX),
                    Field(<<"B">>, <<>>, TSubY),
                    Field(<<"O", "w", "n", "e", "r">>, <<>>, TOwner)>>)

\* a record with toml tags: Z is tagged "x" beside the untagged X, and W is
\* tagged "Y"
TTagged ==
    TStruct("Tagged", <<Field(<<"X">>, <<>>, TInt),
                        Field(<<"Z">>, <<"x">>, TInt),
                        Field(<<"W">>, <<"Y">>, TInt)>>)

FieldKinds ==
    {TBool, TString, TInt, TInt8, TUint, TFloat, timeType, TSlice(TInt),
     TArray(1, TInt), TIface, TMapIface}

Cases ==
    (SeqsUpTo(StructFrags, MaxFrags)
        \X {TIface, TMapIface, TMap(TInt), TRc(TInt), TTagged})
    \cup (SeqsUpTo(ValueFrags, MaxFrags) \X {TRc(K) : K \in FieldKinds})
    \cup (SeqsUpTo(TextFrags, MaxFrags) \X {TIface})
    \cup (SeqsUpTo(ArrayFrags, MaxFrags) \X {TIface})
    \cup (SeqsUpTo(WideFrags, MaxFrags) \X {TRc(TInt8), TRc(TInt16), TRc(TInt)})

(***************************************************************************)
(* Unmarshal.  d is the decoder's place in decode.top: node i of the Root, *)
(* entry j of a section (0 before its header is resolved), and the path    *)
(* and type of top's v.                                                    *)
(***************************************************************************)
\* rv.Kind() == reflect.Interface && rv.NumMethod() == 0
Dynamic == ttype.k = "interface"

\* the value decode.top works on, and its type
Root == IF Dynamic THEN newv ELSE target
RootType == IF Dynamic THEN TMapIface ELSE ttype

Nodes == ptree[1].Root[1].Nodes

IsGroup(n) == n.NodeType = "NodeEntryGroup"

\* the place after entry j of node i (after the header, for j = 0)
Advance(i, j) ==
    IF IsGroup(Nodes[i]) /\ j < Len(Nodes[i].Entries.Nodes)
    THEN [i |-> i, j |-> j + 1]
    ELSE [i |-> i + 1, j |-> 0]

\* the decoder's step wrote w: onto newv for a dynamic target, else in place
Wrote(w) ==
    /\ newv' = IF Dynamic THEN w ELSE newv
    /\ target' = IF Dynamic THEN target ELSE w

DecoderFrame ==
    UNCHANGED <<doc, ttype, input, lx, tokens, sent, received, t, stack, perr, ptree>>

\* an Unmarshal that would make the dynamic target's map before looking at
\* Parse's error
UnmarshalParseErrorSetsTarget ==
    /\ pc = "parse_ret"
    /\ perr # <<>>
    /\ uerr' = perr
    /\ pc' = "done"
    /\ target' = IF Dynamic THEN MakeMap ELSE target
    /\ UNCHANGED <<d, newv>>
    /\ DecoderFrame

\* tree, e := Parse(data); if e != nil { return e }
UnmarshalParseError ==
    /\ pc = "parse_ret"
    /\ perr # <<>>
    /\ uerr' = perr
    /\ pc' = "done"
    /\ UNCHANGED <<d, newv, target>>
    /\ DecoderFrame

\* d := &decode{}; the dynamic target's newv; the call of d.top
UnmarshalDecode ==
    /\ pc = "parse_ret"
    /\ perr = <<>>
    /\ d' = [i |-> 1, j |-> 0, path |-> <<>>, type |-> RootType]
    /\ newv' = IF Dynamic THEN MakeMap ELSE newv
    /\ pc' = IF Nodes = <<>> THEN "decoded" ELSE "decode_top"
    /\ UNCHANGED <<target, uerr>>
    /\ DecoderFrame

\* a loop of decode.top that would go on to the next node after an error
ContinueAfterError(st, w, err, nd) ==
    /\ Wrote(w)
    /\ CASE st = "crash" -> pc' = "crashed" /\ uerr' = uerr /\ d' = d
         [] OTHER ->
               /\ uerr' = IF st = "error" THEN err ELSE uerr
               /\ d' = nd
               /\ pc' = IF nd.i > Len(Nodes) THEN "decoded" ELSE "decode_top"

\* the step of decode.top's loop is done with outcome st
Continue(st, w, err, nd) ==
    /\ Wrote(w)
    /\ CASE st = "error" -> pc' = "done" /\ uerr' = err /\ d' = d
         [] st = "crash" -> pc' = "crashed" /\ uerr' = uerr /\ d' = d
         [] OTHER ->
               /\ uerr' = uerr
               /\ d' = nd
               /\ pc' = IF nd.i > Len(Nodes) THEN "decoded" ELSE "decode_top"

\* decode.top, case *EntryGroupNode: v walks down the header's keys; a key
\* that is not found returns from top
DecodeKeyGroup ==
    /\ pc = "decode_top"
    /\ IsGroup(Nodes[d.i])
    /\ d.j = 0
    /\ LET r == keyGroupFields(Root, d.path, d.type, StringKeys(Nodes[d.i].KeyGroup), 1)
           a == Advance(d.i, 0)
       IN  IF r.st = "notfound"
           THEN Wrote(r.w) /\ pc' = "decoded" /\ UNCHANGED <<d, uerr>>
           ELSE Continue(r.st, r.w, r.err,
                         [i |-> a.i, j |-> a.j, path |-> r.path, type |-> r.type])
    /\ DecoderFrame

\* decode.top: d.entry(v, node) for an entry of the Root or of a section
DecodeEntry ==
    /\ pc = "decode_top"
    /\ IsGroup(Nodes[d.i]) => d.j > 0
    /\ LET e == IF IsGroup(Nodes[d.i]) THEN Nodes[d.i].Entries.Nodes[d.j]
                ELSE Nodes[d.i]
           r == entry(Root, d.path, d.type, e)
           a == Advance(d.i, d.j)
       IN  Continue(r.st, r.w, r.err, [d EXCEPT !.i = a.i, !.j = a.j])
    /\ DecoderFrame

\* top has returned: rv.Set(newv) for a dynamic target; return with err nil
UnmarshalReturn ==
    /\ pc = "decoded"
    /\ target' = IF Dynamic THEN newv ELSE target
    /\ pc' = "done"
    /\ UNCHANGED <<d, newv, uerr>>
    /\ DecoderFrame

(***************************************************************************)
(* The specification: Unmarshal(input, &target) has been called and has    *)
(* called Parse, which has made the Tree and started the scanner's task.   *)
(***************************************************************************)
Init ==
    /\ \E c \in Cases : doc = c[1] /\ ttype = c[2]
    /\ input = Text(doc)
    /\ lx = NewLexer
    /\ tokens = <<>>
    /\ sent = <<>>
    /\ received = <<>>
    /\ t = NewTree
    /\ pc = "parse"
    /\ stack = <<>>
    /\ perr = <<>>
    /\ ptree = <<>>
    /\ d = [i |-> 0, j |-> 0, path |-> <<>>, type |-> TIface]
    /\ newv = NilValue
    /\ target = Zero(ttype)
    /\ uerr = <<>>

Next ==
    \/ LexStep
    \/ TreeParse
    \/ TreeParseLoop
    \/ TreeTop
    \/ TreeTopError
    \/ TreeEntryGroup
    \/ TreeEntryGroupList
    \/ TreeEntryGroupLoop
    \/ TreeEntry
    \/ TreeEntrySep
    \/ TreeValue
    \/ TreeArray
    \/ TreeArrayLoop
    \/ TreeArrayEnd
    \/ TreeArrayElem
    \/ TreeArraySep
    \/ UnmarshalParseError
    \/ UnmarshalDecode
    \/ DecodeKeyGroup
    \/ DecodeEntry
    \/ UnmarshalReturn

Spec == Init /\ [][Next]_vars

\* the scanner's goroutine can run: its loop has a state function to call
\* and it is not parked on the send of emit
LexCan == lx.state # "nil" /\ ~lx.blocked

\* weak fairness of LexStep, written with LexCan for ENABLED <<LexStep>>_lx
\* (every LexStep changes lx): the goroutine is not runnable forever
\* without being run
LexFair == []<>(~LexCan) \/ []<><<LexStep>>_lx

(***************************************************************************)
(* Parse(input) called on its own, as a client of the package may: the     *)
(* task of the caller and the scanner's goroutine, each run by a fair      *)
(* scheduler.  pc stays at "parse_ret" once Parse has returned.            *)
(***************************************************************************)
ParseStep ==
    \/ TreeParse \/ TreeParseLoop \/ TreeTop \/ TreeTopError
    \/ TreeEntryGroup \/ TreeEntryGroupList \/ TreeEntryGroupLoop
    \/ TreeEntry \/ TreeEntrySep \/ TreeValue
    \/ TreeArray \/ TreeArrayLoop \/ TreeArrayEnd \/ TreeArrayElem \/ TreeArraySep

\* the documents Parse is called on
ParseDocs ==
    {c[1] : c \in {x \in Cases : x[2] = TIface}} \cup SeqsUpTo(GroupFrags, MaxFrags)

InitParse ==
    /\ doc \in ParseDocs
    /\ ttype = TIface
    /\ input = Text(doc)
    /\ lx = NewLexer
    /\ tokens = <<>>
    /\ sent = <<>>
    /\ received = <<>>
    /\ t = NewTree
    /\ pc = "parse"
    /\ stack = <<>>
    /\ perr = <<>>
    /\ ptree = <<>>
    /\ d = [i |-> 0, j |-> 0, path |-> <<>>, type |-> TIface]
    /\ newv = NilValue
    /\ target = Zero(ttype)
    /\ uerr = <<>>

NextParse ==
    \/ LexStep
    \/ ParseStep

\* where the caller stands inside Parse
ParserPcs ==
    {"parse", "parse_loop", "top", "top_error", "entryGroup", "entryGroup_list",
     "entryGroup_loop", "entry", "entry_sep", "value", "array", "array_loop",
     "array_end", "array_elem", "array_sep"}

\* inside Parse the caller can run when it has a token in the pushback
\* buffer or one to receive
ParseCan == pc \in ParserPcs /\ CanTake

\* weak fairness of ParseStep, written with ParseCan for
\* ENABLED <<ParseStep>>_<<pc, t>> (every ParseStep changes pc or t)
ParseFair == []<>(~ParseCan) \/ []<><<ParseStep>>_<<pc, t>>

\* Parse starts, and both tasks run whenever they can
ParseSpec ==
    InitParse /\ [][NextParse]_vars /\ WF_<<pc, t>>(TreeParse) /\ LexFair /\ ParseFair

(***************************************************************************)
(* The scanner alone, under the loop of TestLex: c := <-l.tokens until    *)
(* c.typ == tokenEOF.  pc is "pull" while the loop runs, "pulled" after    *)
(* the break; t only keeps what lexer.nextToken stores.                    *)
(***************************************************************************)
Pull ==
    /\ pc = "pull"
    /\ tokens # <<>>
    /\ t' = nextToken(t)
    /\ received' = Append(received, Head(tokens))
    /\ tokens' = <<>>
    /\ lx' = Resume(lx)
    /\ pc' = IF Head(tokens).typ = tokenEOF THEN "pulled" ELSE "pull"
    /\ UNCHANGED <<doc, ttype, input, sent, stack, perr, ptree, d, newv, target, uerr>>

InitPull ==
    /\ doc \in SeqsUpTo(TextFrags, MaxFrags) \cup SeqsUpTo(ArrayFrags, MaxFrags)
                \cup SeqsUpTo(LineFrags, MaxFrags)
                \cup SeqsUpTo(DateFrags, MaxFrags)
    /\ ttype = TIface
    /\ input = Text(doc)
    /\ lx = NewLexer
    /\ tokens = <<>>
    /\ sent = <<>>
    /\ received = <<>>
    /\ t = NewTree
    /\ pc = "pull"
    /\ stack = <<>>
    /\ perr = <<>>
    /\ ptree = <<>>
    /\ d = [i |-> 0, j |-> 0, path |-> <<>>, type |-> TIface]
    /\ newv = NilValue
    /\ target = Zero(ttype)
    /\ uerr = <<>>

NextPull ==
    \/ LexStep
    \/ Pull

PullSpec == InitPull /\ [][NextPull]_vars /\ LexFair /\ WF_vars(Pull)

(***************************************************************************)
(* What the claims speak of.                                               *)
(***************************************************************************)
Range(f) == {f[i] : i \in DOMAIN f}

\* Parse has returned to Unmarshal
ParseReturned == pc \in {"parse_ret", "decode_top", "decoded", "done", "crashed"}

\* the keys that lead to the value a fragment's entry writes
KeyPath(name) == Frag(name).hdr \o <<Frag(name).key>>

\* the value found in val (of type T) by following keys through struct fields
\* and map elements: <<>> if there is none, else <<value>>
RECURSIVE Lookup(_, _, _)
Lookup(T, val, keys) ==
    IF keys = <<>> THEN <<val>>
    ELSE CASE val.k = "map" ->
                 IF keys[1] \in DOMAIN val.v
                 THEN Lookup(IF T.k = "map" THEN T.elem ELSE TIface,
                             val.v[keys[1]], Tail(keys))
                 ELSE <<>>
           [] val.k = "struct" ->
                 IF FieldMatches(T, keys[1]) = {} THEN <<>>
                 ELSE Lookup(T.fields[Min(FieldMatches(T, keys[1]))].type,
                             val.v[Min(FieldMatches(T, keys[1]))], Tail(keys))
           [] OTHER -> <<>>

\* the type of the field of record type T that keys lead to: <<>> or <<type>>
RECURSIVE FieldType(_, _)
FieldType(T, keys) ==
    IF keys = <<>> THEN <<T>>
    ELSE IF T.k # "struct" \/ T = timeType \/ FieldMatches(T, keys[1]) = {} THEN <<>>
    ELSE FieldType(T.fields[Min(FieldMatches(T, keys[1]))].type, Tail(keys))

\* the target holds, under the fragment's keys, the value the fragment writes
Holds(name) == Lookup(ttype, target, KeyPath(name)) = <<Frag(name).val>>

\* the mapping a document of scalar entries and noise lines writes
RECURSIVE WrittenMap(_)
WrittenMap(names) ==
    IF names = <<>> THEN MakeMap
    ELSE LET f == Frag(names[Len(names)])
             m == WrittenMap(SubSeq(names, 1, Len(names) - 1))
         IN  IF f.class = "scalar" THEN SetMapIndex(m, f.key, f.val) ELSE m

ScalarDoc(names) ==
    \A i \in 1..Len(names) : Frag(names[i]).class \in {"scalar", "noise"}

\* the pairing of a value node with a target type in the dispatch table:
\* Boolean onto bool, String onto string, integer Number onto a signed integer,
\* float Number onto a float, DateTime onto time.Time, Array onto a slice or an
\* array that is long enough with every element fitting, anything onto the
\* empty interface
RECURSIVE Fits(_, _)
Fits(node, T) ==
    \/ T.k = "interface"
    \/ node.NodeType = "NodeBool" /\ T.k = "bool"
    \/ node.NodeType = "NodeString" /\ T.k = "string"
    \/ node.NodeType = "NodeNumber" /\ T.k = "int" /\ node.IsInt
    \/ node.NodeType = "NodeNumber" /\ T.k = "float" /\ node.IsFloat
    \/ node.NodeType = "NodeDatetime" /\ T = timeType
    \/ /\ node.NodeType = "NodeArray"
       /\ T.k \in {"slice", "array"}
       /\ T.k = "array" => T.len >= Len(node.Array.Nodes)
       /\ \A i \in 1..Len(node.Array.Nodes) : Fits(node.Array.Nodes[i], T.elem)

\* decode.top is about to call d.entry
AtEntry == pc = "decode_top" /\ (IsGroup(Nodes[d.i]) => d.j > 0)

CurEntry ==
    IF IsGroup(Nodes[d.i]) THEN Nodes[d.i].Entries.Nodes[d.j] ELSE Nodes[d.i]

\* what d.entry's findField finds for that entry
CurField == findField("entry", Root, d.path, d.type, CurEntry.Key.Key)

\* the Number nodes of a value node, and of the tree Parse returned
RECURSIVE ValueNumbers(_)
ValueNumbers(n) ==
    CASE n.NodeType = "NodeNumber" -> {n}
      [] n.NodeType = "NodeArray" ->
            UNION {ValueNumbers(n.Array.Nodes[i]) : i \in 1..Len(n.Array.Nodes)}
      [] OTHER -> {}

EntryValues ==
    UNION {IF IsGroup(Nodes[i])
           THEN {Nodes[i].Entries.Nodes[j].Value : j \in 1..Len(Nodes[i].Entries.Nodes)}
           ELSE {Nodes[i].Value} : i \in 1..Len(Nodes)}

DigitsOnly(text) ==
    /\ StripSign(text) # <<>>
    /\ \A i \in 1..Len(StripSign(text)) : StripSign(text)[i] \in Digits

DecimalValue(text) ==
    IF IsNeg(text) THEN -DigitsValue(StripSign(text), 10)
    ELSE DigitsValue(StripSign(text), 10)

(***************************************************************************)
(* C1.  Parse returns exactly one of: a tree whose Root is non-nil with a  *)
(* nil error, or a nil tree with a non-nil error; never a partially built  *)
(* tree together with an error, and never neither.                         *)
(***************************************************************************)
C1_ParseTreeOrError ==
    ParseReturned =>
        \/ ptree # <<>> /\ ptree[1].Root # <<>> /\ perr = <<>>
        \/ ptree = <<>> /\ perr # <<>>

\* Parse has failed on the second line, after the entry of the first line had
\* been appended to the Root
C1_Witness ==
    /\ ParseReturned
    /\ perr # <<>>
    /\ perr[1].line = 2
    /\ ptree = <<>>
    /\ Len(doc) = 2
    /\ Frag(doc[1]).class = "scalar"
    /\ \E i \in 1..Len(sent) : sent[i].typ = tokenNumber

(***************************************************************************)
(* C2.  A document of top-level scalar entries only, with any blank lines, *)
(* comment lines, trailing comments and spacing around the key separator,  *)
(* decodes into a dynamic target without error as the mapping of its       *)
(* entries' keys to their values.                                          *)
(***************************************************************************)
C2_ScalarDocDecodes ==
    (pc = "done" /\ Dynamic /\ ScalarDoc(doc)) =>
        (uerr = <<>> /\ target = WrittenMap(doc))

(***************************************************************************)
(* C3.  Each section header is resolved from the top-level target: after   *)
(* [a] with x and then [b] with y the target holds a.x and b.y as siblings *)
(* under the root, for record, mapping and dynamic targets alike.          *)
(***************************************************************************)
C3_SectionsAreSiblings ==
    \A f, g \in {"a_x", "b_y"} :
        (/\ pc = "done"
         /\ f # g
         /\ doc = <<f, g>>
         /\ ttype \in {TIface, TMapIface, TRc(TInt)}) =>
            (uerr = <<>> /\ Holds(f) /\ Holds(g))

(***************************************************************************)
(* C4.  [owner] name = "a" followed by [owner] name = "b", decoded into a  *)
(* record whose Owner field is a record with a Name field, leaves          *)
(* Name = "b": the last occurrence wins.                                   *)
(***************************************************************************)
C4_LastOwnerWins ==
    (pc = "done" /\ doc = <<"owner_a", "owner_b">> /\ ttype.k = "struct") =>
        (uerr = <<>> /\ Holds("owner_b"))

(***************************************************************************)
(* C5.  Decoding into a record, a key (of an entry or of a section header) *)
(* that matches no field is skipped without error, and an entry or section *)
(* after it that does match a field is still applied.                      *)
(***************************************************************************)
C5_UnmatchedKeySkipped ==
    \A u, m \in StructFrags :
        (/\ pc = "done"
         /\ ttype.k = "struct"
         /\ doc = <<u, m>>
         /\ Frag(u).class \in {"scalar", "section"}
         /\ Frag(m).class \in {"scalar", "section"}
         /\ Frag(u).hdr # <<>> => Frag(m).hdr # <<>>
         /\ FieldType(ttype, KeyPath(u)) = <<>>
         /\ FieldType(ttype, KeyPath(m)) # <<>>
         /\ FieldType(ttype, KeyPath(m))[1].k = Frag(m).val.k) =>
            (uerr = <<>> /\ Holds(m))

(***************************************************************************)
(* C6.  For each pair of a value kind and a target kind, decoding succeeds *)
(* exactly when the pair is compatible (Boolean onto bool, String onto     *)
(* string, integer Number onto a signed integer, float Number onto a       *)
(* float, DateTime onto time.Time, Array onto a slice, anything onto a     *)
(* dynamic target); any other pairing returns an UnmarshalTypeError that   *)
(* names the kind of the value and the type of the target, without a crash *)
(* and without an assignment.                                              *)
(***************************************************************************)
\* the pairs of the claim's table, by the kind of the value a fragment writes
CompatibleKinds(vk, K) ==
    \/ K.k = "interface"
    \/ vk = "bool" /\ K.k = "bool"
    \/ vk = "string" /\ K.k = "string"
    \/ vk = "int" /\ K.k = "int"
    \/ vk = "float" /\ K.k = "float"
    \/ vk = "time" /\ K = timeType
    \/ vk = "slice" /\ K.k = "slice"

\* the descriptions of a value's kind that UnmarshalTypeError.Value may carry
KindNames(vk) ==
    CASE vk = "bool" -> {"bool"}
      [] vk = "string" -> {"string"}
      [] vk = "int" -> {"number", "int"}
      [] vk = "float" -> {"number", "float"}
      [] vk = "time" -> {"datetime"}
      [] vk = "slice" -> {"array"}

C6_DispatchTable ==
    \A f \in {"x_int", "x_float", "x_bool", "x_str", "x_time", "x_arr"} :
      \A K \in FieldKinds \ {TArray(1, TInt)} :
        (doc = <<f>> /\ ttype = TRc(K) /\ pc \in {"done", "crashed"}) =>
            /\ pc = "done"
            /\ IF CompatibleKinds(Frag(f).val.k, K)
               THEN uerr = <<>> /\ Holds(f)
               ELSE /\ uerr # <<>>
                    /\ uerr[1].e = "UnmarshalTypeError"
                    /\ uerr[1].Type = K
                    /\ uerr[1].Value \in KindNames(Frag(f).val.k)
                    /\ target = Zero(ttype)

(***************************************************************************)
(* C7.  Number decoding is strict about integer versus float: an integer   *)
(* Number onto a float field, and a float Number onto an integer field,    *)
(* fail with an UnmarshalTypeError for that field's type, and the target   *)
(* is not assigned a converted value.                                      *)
(***************************************************************************)
C7_StrictNumbers ==
    [][(/\ AtEntry
        /\ CurEntry.Value.NodeType = "NodeNumber"
        /\ CurField.st = "ok"
        /\ \/ CurField.type.k = "float" /\ CurEntry.Value.IsInt
           \/ CurField.type.k = "int" /\ CurEntry.Value.IsFloat) =>
            (/\ pc' = "done"
             /\ uerr' # <<>>
             /\ uerr'[1].e = "UnmarshalTypeError"
             /\ uerr'[1].Type = CurField.type
             /\ target' = target
             /\ newv' = newv)]_vars

\* x = 3 has been refused by a float field, and x = 3.0 by an int field
C7_Witness ==
    /\ pc = "done"
    /\ \/ /\ doc = <<"x_int">>
          /\ ttype = TRc(TFloat)
          /\ uerr = <<UnmarshalTypeError("float", TFloat)>>
       \/ /\ doc = <<"x_float">>
          /\ ttype = TRc(TInt)
          /\ uerr = <<UnmarshalTypeError("int", TInt)>>
    /\ target = Zero(ttype)

(***************************************************************************)
(* C8.  Every Number node the parser builds has exactly one of IsInt and   *)
(* IsFloat set; a literal of an optional sign and decimal digits is the    *)
(* integer with that decimal value, and a literal with a decimal point is  *)
(* a float.                                                                *)
(***************************************************************************)
C8_NumberNodes ==
    ptree # <<>> =>
        \A v \in EntryValues : \A n \in ValueNumbers(v) :
            /\ n.IsInt # n.IsFloat
            /\ DigitsOnly(n.Text) => (n.IsInt /\ n.Int = DecimalValue(n.Text))
            /\ (\E i \in 1..Len(n.Text) : n.Text[i] = ".") => n.IsFloat

(***************************************************************************)
(* C9.  Decoding is fail-fast without rollback: at the first value, in     *)
(* document order, that does not fit its matched target, Unmarshal returns *)
(* that error, no later entry is applied, and what earlier entries         *)
(* assigned stays in the target; a value that fits raises no error.        *)
(***************************************************************************)
C9_FailFast ==
    [][/\ (AtEntry /\ CurField.st = "ok" /\ ~Fits(CurEntry.Value, CurField.type)) =>
            (/\ pc' = "done"
             /\ uerr' # <<>>
             /\ uerr'[1].e \in {"UnmarshalTypeError", "errorf"}
             /\ d' = d
             /\ LET old == GetAt(Root, CurField.path)
                    w == IF Dynamic THEN newv' ELSE target'
                IN  /\ SetAt(w, CurField.path, old) = Root
                    /\ old.k = "map" => GetAt(w, CurField.path).v = old.v)
       /\ (AtEntry /\ CurField.st = "ok" /\ Fits(CurEntry.Value, CurField.type)) =>
            (pc' # "done" /\ uerr' = <<>>)
       /\ pc = "done" => (target' = target /\ uerr' = uerr)]_vars

\* an entry has been refused after an earlier entry had been assigned
C9_Witness ==
    /\ pc = "done"
    /\ uerr # <<>>
    /\ uerr[1].e = "UnmarshalTypeError"
    /\ d.i = 2
    /\ target # Zero(ttype)
    /\ Holds(doc[1])

(***************************************************************************)
(* C10.  The decoder runs only after parsing has succeeded: if Parse fails *)
(* on the text, Unmarshal returns that error and the target is left as it  *)
(* was before the call.                                                    *)
(***************************************************************************)
C10_ParseErrorLeavesTarget ==
    /\ perr # <<>> =>
          /\ target = Zero(ttype)
          /\ newv = NilValue
          /\ d.i = 0
          /\ pc \in {"parse_ret", "done"}
          /\ pc = "done" => uerr = perr
    /\ pc \in {"decode_top", "decoded"} => (perr = <<>> /\ ptree # <<>>)

\* Unmarshal has returned the parse error of a text whose first line is a
\* well-formed entry
C10_Witness ==
    /\ pc = "done"
    /\ perr # <<>>
    /\ uerr = perr
    /\ Len(doc) = 2
    /\ Frag(doc[1]).class = "scalar"
    /\ \E i \in 1..Len(sent) : sent[i].typ = tokenNumber
    /\ target = Zero(ttype)

(***************************************************************************)
(* The token stream.                                                       *)
(***************************************************************************)
IsTerminal(tok) == tok.typ \in {tokenEOF, tokenError}

Last(q) == q[Len(q)]

\* lexer.run has returned: the scanner's task is over
Terminated == lx.state = "nil" /\ ~lx.blocked

\* the terminal token has been taken from the channel
TerminalReceived == received # <<>> /\ IsTerminal(Last(received))

\* a terminal token is the last one handed over, and the scanner's task is
\* over exactly when it has been received
StreamEnds ==
    /\ \A i \in 1..Len(sent) : IsTerminal(sent[i]) => i = Len(sent)
    /\ Terminated <=> TerminalReceived

\* an iteration of lexer.run has consumed input, sent a token or ended
Progresses ==
    \/ lx'.pos > lx.pos
    \/ Len(sent') > Len(sent)
    \/ lx'.state = "nil"

\* lexValue backs up over a sign or a digit, and lexNumberOrDatetime only
\* looks ahead, before they hand over to the state that scans
Dispatches ==
    \/ lx.state = "lexValue" /\ lx'.state \in {"lexNumber", "lexNumberOrDatetime"}
    \/ lx.state = "lexNumberOrDatetime" /\ lx'.state \in {"lexNumber", "lexDatetime"}

(***************************************************************************)
(* C11.  As first stated: a consumer that keeps pulling receives a finite  *)
(* token sequence that ends with exactly one terminal token, after which   *)
(* nothing is handed over and the scanner's task is over, and every        *)
(* iteration of the scanner consumes at least one character, emits a token *)
(* or terminates.                                                          *)
(***************************************************************************)
C11_EveryStateProgresses ==
    /\ [](StreamEnds)
    /\ <>Terminated
    /\ [][(~lx.blocked /\ lx' # lx) => Progresses]_vars

(***************************************************************************)
(* C11, amended.  The token sequence is finite and ends with exactly one   *)
(* terminal token, after which nothing is handed over and the scanner's    *)
(* task is over; every iteration of the scanner consumes at least one      *)
(* character, emits a token, terminates, or dispatches a number or a       *)
(* date-time to the state that scans it (at most two such iterations in a  *)
(* row).                                                                   *)
(***************************************************************************)
C11_FiniteStream ==
    /\ [](StreamEnds)
    /\ <>Terminated
    /\ [][(~lx.blocked /\ lx' # lx) => (Progresses \/ Dispatches)]_vars

\* the stream has ended with an error token after a number was handed over
C11_Witness ==
    /\ pc = "pull"
    /\ Terminated
    /\ Len(received) > 3
    /\ Last(received).typ = tokenError
    /\ \E i \in 1..Len(received) : received[i].typ = tokenNumber
    /\ sent = received

(***************************************************************************)
(* C12: the handoff of tokens is a rendezvous on a channel of capacity 0.  *)
(* At most one token is in the channel, and while it is there the scanner  *)
(* is parked in its send; what the parser has received, followed by the    *)
(* token in the channel, is exactly what the scanner has emitted (nothing  *)
(* lost, duplicated or reordered); the scanner emits token n+1 only when   *)
(* token n has been received, and a parked scanner moves again only in a   *)
(* step that receives.                                                     *)
(***************************************************************************)
C12_Rendezvous ==
    /\ [](/\ Len(tokens) <= 1
          /\ received \o tokens = sent
          /\ (tokens # <<>> => lx.blocked))
    /\ [][Len(sent') > Len(sent) =>
            /\ tokens = <<>>
            /\ received = sent
            /\ Len(sent') = Len(sent) + 1]_vars
    /\ [][(lx.blocked /\ lx' # lx) =>
            /\ tokens # <<>>
            /\ received' = Append(received, Head(tokens))
            /\ ~lx'.blocked]_vars

\* the parser has received three tokens and the scanner waits with the fourth
C12_Witness ==
    /\ pc \notin {"pull", "pulled"}
    /\ perr = <<>>
    /\ Len(received) = 3
    /\ Len(sent) = 4
    /\ tokens = <<sent[4]>>
    /\ lx.blocked

(***************************************************************************)
(* C13: nothing cancels the scanner.  Its task is over only when its       *)
(* terminal token has been received.  When Parse has returned a syntax     *)
(* error and the last token it received is neither tokenEOF nor tokenError,*)
(* the scanner's task is never over: it runs to its next send, and once    *)
(* parked there with its token it stays parked, the token never taken.     *)
(***************************************************************************)
Abandoned ==
    /\ ParseReturned
    /\ perr # <<>>
    /\ received # <<>>
    /\ ~IsTerminal(Last(received))

Parked == lx.blocked /\ tokens # <<>>

\* the token Parse failed on is the last one it received
FailedOnLast ==
    (ParseReturned /\ perr # <<>>) =>
        /\ received # <<>>
        /\ t.peekCount <= 1
        /\ t.token[1] = Last(received)

C13_NoCancellation ==
    /\ [](FailedOnLast)
    /\ [](Terminated => TerminalReceived)
    /\ [](Abandoned => ~Terminated)
    /\ [][(Abandoned /\ Parked) => (Abandoned' /\ lx' = lx /\ tokens' = tokens)]_vars
    /\ (Abandoned ~> Parked)

\* Parse failed on a number in an array; the scanner holds the token after it
C13_Witness ==
    /\ Abandoned
    /\ Parked
    /\ Len(doc) = 1
    /\ doc[1] \in ArrayFrags
    /\ Last(received).typ = tokenNumber
    /\ ~IsTerminal(Head(tokens))

(***************************************************************************)
(* C14: malformed entries fail.  Whatever stands before it, a document     *)
(* with an entry whose string has no closing quote before the end of the   *)
(* line or of the input, whose key is followed by '?' where the separator  *)
(* should be, or whose number is directly followed by a letter, makes      *)
(* Parse return an error, and the scanner emits no tokenString and no      *)
(* tokenNumber from the text of that entry.                                *)
(***************************************************************************)
Malformed == {"unterminated", "unterm_eof", "badsep", "badnum"}

\* the i-th fragment is a malformed entry; the string that the end of the
\* input cuts is one only where the input ends
IsMalformed(i) == doc[i] \in Malformed /\ (doc[i] = "unterm_eof" => i = Len(doc))

\* where the i-th fragment of the document starts in the input
Offset(i) == Len(Text(SubSeq(doc, 1, i - 1)))

\* the tokens the scanner made from the i-th fragment
TokensOf(i) ==
    {k \in 1..Len(sent) :
        /\ sent[k].typ # tokenEOF
        /\ sent[k].pos >= Offset(i)
        /\ sent[k].pos < Offset(i) + Len(Frag(doc[i]).text)}

C14_MalformedFails ==
    \A i \in 1..Len(doc) :
        IsMalformed(i) =>
            /\ \A k \in TokensOf(i) : sent[k].typ \notin {tokenString, tokenNumber}
            /\ ParseReturned => perr # <<>>

(***************************************************************************)
(* The value a node of the tree stands for, nesting kept.                  *)
(***************************************************************************)
RECURSIVE NodeValue(_)
NodeValue(n) ==
    CASE n.NodeType = "NodeBool" -> DBool(n.True)
      [] n.NodeType = "NodeString" -> DString(n.Text)
      [] n.NodeType = "NodeNumber" ->
            IF n.IsInt THEN DInt(n.Int) ELSE DFloat(n.Float.m, n.Float.e)
      [] n.NodeType = "NodeDatetime" -> DTime(n.Time)
      [] n.NodeType = "NodeArray" ->
            DSlice([i \in 1..Len(n.Array.Nodes) |-> NodeValue(n.Array.Nodes[i])])

\* Parse returned a tree whose Root holds one entry for each fragment of the
\* document, with the key and the value the fragment is written for
ParsedAsWritten ==
    /\ ParseReturned
    /\ perr = <<>>
    /\ Len(Nodes) = Len(doc)
    /\ \A i \in 1..Len(doc) :
          /\ Nodes[i].NodeType = "NodeEntry"
          /\ Nodes[i].Key.Key = Frag(doc[i]).key
          /\ Nodes[i].Value.NodeType = "NodeArray"
          /\ NodeValue(Nodes[i].Value) = Frag(doc[i]).val

(***************************************************************************)
(* C15, as stated: an array literal with a separator immediately before    *)
(* the closing bracket, whatever whitespace, newline or comment stands     *)
(* between them, makes Parse fail with a syntax error.                     *)
(***************************************************************************)
C15_TrailingSeparatorFails ==
    (ParseReturned /\ \E i \in 1..Len(doc) : Frag(doc[i]).class = "trailing") =>
        perr # <<>>

(***************************************************************************)
(* C15, amended: a separator immediately before the closing bracket is     *)
(* accepted, and the array holds the elements before it; a separator with  *)
(* no element before it, and two elements with no separator between them,  *)
(* make Parse fail with a syntax error.                                    *)
(***************************************************************************)
C15_TrailingSeparatorAccepted ==
    ParseReturned =>
        /\ (doc # <<>> /\ \A i \in 1..Len(doc) : Frag(doc[i]).class = "trailing") =>
                ParsedAsWritten
        /\ (\E i \in 1..Len(doc) : doc[i] \in {"arr_sepsep", "arr_nosep"}) =>
                /\ perr # <<>>
                /\ perr[1].e = "syntax error"

\* both trailing separators parsed: the bare one and the one followed by a
\* comment and a newline
C15_Witness ==
    /\ doc = <<"arr_trail", "arr_trail_nl">>
    /\ ParsedAsWritten
    /\ \E k \in 1..Len(received) : received[k].typ = tokenArraySep

(***************************************************************************)
(* C16: a document of entries whose values are array literals, of any mix  *)
(* of booleans, numbers, strings, date-times and nested arrays separated   *)
(* by single commas, parses to entries whose Array nodes hold the nodes of *)
(* the elements in source order, nesting kept.                             *)
(***************************************************************************)
C16_MixedArraysParse ==
    (/\ ParseReturned
     /\ doc # <<>>
     /\ \A i \in 1..Len(doc) : Frag(doc[i]).class = "array") =>
        ParsedAsWritten

(***************************************************************************)
(* C17: the field of a record target that an entry's key k selects.  A     *)
(* field whose toml tag equals k is the one selected whenever there is     *)
(* one; a field whose tag is not k is selected only when no field has the  *)
(* tag k, and then by its natural name, letter case ignored.               *)
(***************************************************************************)
TaggedAs(T, key) == {i \in 1..Len(T.fields) : T.fields[i].tag = key}

\* the field decode.entry is about to decode onto, 0 when none is found
Selected == IF CurField.st = "ok" THEN Last(CurField.path).i ELSE 0

C17_TagFirst ==
    (AtEntry /\ d.type.k = "struct") =>
        LET key == CurEntry.Key.Key
            tagged == TaggedAs(d.type, key)
        IN  /\ tagged # {} => Selected \in tagged
            /\ (Selected # 0 /\ Selected \notin tagged) =>
                    /\ tagged = {}
                    /\ EqualFold(d.type.fields[Selected].name, key)

(***************************************************************************)
(* C18: an entry whose value is an Array node of n elements, decoded onto  *)
(* a field that is a slice or an array.  A slice holding fewer than n      *)
(* elements has exactly n afterwards, element i of the node decoded at     *)
(* position i (all of them when every element fits the element type); an   *)
(* array of length less than n makes Unmarshal return an error with        *)
(* nothing decoded.                                                        *)
(***************************************************************************)
ArrayOnto ==
    /\ AtEntry
    /\ ~Dynamic
    /\ CurField.st = "ok"
    /\ CurEntry.Value.NodeType = "NodeArray"
    /\ CurField.type.k \in {"slice", "array"}

AllInts(nodes) ==
    \A i \in 1..Len(nodes) : nodes[i].NodeType = "NodeNumber" /\ nodes[i].IsInt

C18_GrowOrFail ==
    [][ArrayOnto =>
        LET F == CurField.type
            p == CurField.path
            nodes == CurEntry.Value.Array.Nodes
            n == Len(nodes)
            old == GetAt(target, p)
            new == GetAt(target', p)
        IN  /\ (F.k = "slice" /\ Len(old.v) < n) =>
                    /\ Len(new.v) = n
                    /\ (F.elem = TInt /\ AllInts(nodes)) => uerr' = <<>>
                    /\ uerr' = <<>> =>
                            \A i \in 1..n : new.v[i] = NodeValue(nodes[i])
            /\ (F.k = "array" /\ Len(old.v) < n) =>
                    /\ pc' = "done"
                    /\ uerr' # <<>>
                    /\ uerr'[1].e = "errorf"
                    /\ new = old]_vars

\* the slice that held the 7 of `x = [7]` holds 1 and 2 after `x = [1, 2]`
C18_Witness ==
    /\ doc = <<"x_one", "x_arr">>
    /\ ttype = TRc(TSlice(TInt))
    /\ pc = "done"
    /\ uerr = <<>>
    /\ target.v[1] = DSlice(<<DInt(1), DInt(2)>>)

(***************************************************************************)
(* C19: Parse terminates on every input.  Once the terminal token has been *)
(* received nothing more is received, and while Parse is still running the *)
(* terminal token is in the pushback buffer, so that its next token        *)
(* operation does not wait on the scanner, whose task is over; and Parse   *)
(* returns eventually.                                                     *)
(***************************************************************************)
C19_ParseTerminates ==
    /\ [][TerminalReceived => received' = received]_vars
    /\ []((TerminalReceived /\ pc \in ParserPcs) =>
            (t.peekCount > 0 /\ IsTerminal(Peeked(t))))
    /\ <>ParseReturned

\* Parse returned the tree of a section: Tree.entryGroup peeked tokenEOF and
\* left it in the buffer for the loop of Tree.parse
C19_Witness ==
    /\ doc = <<"a_x">>
    /\ pc = "parse_ret"
    /\ perr = <<>>
    /\ Last(received).typ = tokenEOF
    /\ t.peekCount = 1
    /\ Terminated

(***************************************************************************)
(* The scanner's array-nesting counter.                                    *)
(***************************************************************************)
Count(q, typ) == Cardinality({k \in 1..Len(q) : q[k].typ = typ})

\* array-open tokens emitted minus array-close tokens emitted
Nesting == Count(sent, tokenArrayStart) - Count(sent, tokenArrayEnd)

\* the scanner is in the send of a token
AtToken == lx.blocked /\ sent # <<>>

\* a call of lexValue, and the character it reads
InValue == lx.state = "lexValue" /\ ~lx.blocked /\ lx' # lx

Read == LexNext(input, lx.pos).r

\* the call emits one token, of type typ
Emits(typ) == Len(sent') = Len(sent) + 1 /\ Last(sent').typ = typ

\* what lexValue does with ']', ',' and a newline
BracketCommaNewline ==
    [][InValue =>
        /\ Read = "]" =>
              IF lx.arrayDepth = 0
              THEN Emits(tokenError) /\ lx'.state = "nil"
              ELSE Emits(tokenArrayEnd) /\ lx'.arrayDepth = lx.arrayDepth - 1
        /\ Read = "," =>
              IF lx.arrayDepth > 0
              THEN Emits(tokenArraySep) /\ lx'.arrayDepth = lx.arrayDepth
              ELSE Emits(tokenError) /\ lx'.state = "nil"
        /\ Emits(tokenArraySep) => (Read = "," /\ lx.arrayDepth > 0)
        /\ Read = NL =>
              /\ sent' = sent
              /\ lx'.state = "lexStart" <=> lx.arrayDepth = 0
              /\ lx'.state = "lexValue" <=> lx.arrayDepth # 0]_vars

(***************************************************************************)
(* C20, as stated: at every emitted token the counter is the number of     *)
(* array-open tokens emitted minus the number of array-close tokens        *)
(* emitted, and is not negative; a ']' at 0 yields an error token, a ','   *)
(* is a separator only above 0, and a newline in a value goes back to the  *)
(* start state iff the counter is 0.                                       *)
(***************************************************************************)
C20_CounterAtEveryToken ==
    /\ [](AtToken => (lx.arrayDepth = Nesting /\ lx.arrayDepth >= 0))
    /\ BracketCommaNewline

(***************************************************************************)
(* C20, amended: the counter is the nesting of the emitted tokens, and not *)
(* negative, at every token but the error token of an unmatched ']', which *)
(* is sent with the counter already at -1; the rest as stated.             *)
(***************************************************************************)
C20_CounterAtTokens ==
    /\ [](AtToken =>
            IF Last(sent).typ = tokenError /\ Last(sent).val = <<"unexpected array end">>
            THEN lx.arrayDepth = 0 - 1 /\ Nesting = 0
            ELSE lx.arrayDepth = Nesting /\ lx.arrayDepth >= 0)
    /\ BracketCommaNewline

\* inside `[1,\n 2]`: a separator was emitted at nesting 1 and the newline
\* after it left the scanner in lexValue
C20_Witness ==
    /\ doc = <<"arr_nl", "close0">>
    /\ AtToken
    /\ Last(sent).typ = tokenError
    /\ lx.arrayDepth = 0 - 1
    /\ Count(sent, tokenArraySep) = 1
    /\ Count(sent, tokenArrayEnd) = 1

(***************************************************************************)
(* C21: a call of lexStart that reads a newline character (LF or CR).  If  *)
(* the character after it is a newline character too, the call emits       *)
(* tokenEOF and the scan is over, and nothing is emitted for the text      *)
(* after that point; otherwise the call emits nothing, skips the one       *)
(* character, and the scanner stays in lexStart.                           *)
(***************************************************************************)
\* the two newline characters of the statement: line feed, carriage return
LineEnd(r) == r \in {NL, CR}

InStart == lx.state = "lexStart" /\ ~lx.blocked /\ lx' # lx

\* tokenEOF sent by lexStart on the first of two newline characters
BlankLineEOF ==
    /\ sent # <<>>
    /\ Last(sent).typ = tokenEOF
    /\ lx.pos < Len(input)
    /\ LineEnd(RuneAt(input, lx.pos - 1))
    /\ LineEnd(RuneAt(input, lx.pos))

C21_BlankLineEndsInput ==
    /\ [][(InStart /\ LineEnd(Read)) =>
            IF LineEnd(RuneAt(input, lx.pos + 1))
            THEN /\ Emits(tokenEOF)
                 /\ lx'.state = "nil"
                 /\ lx'.pos = lx.pos + 1
            ELSE /\ sent' = sent
                 /\ lx'.state = "lexStart"
                 /\ lx'.pos = lx.pos + 1
                 /\ lx'.start = lx'.pos]_vars
    /\ [][BlankLineEOF => (sent' = sent /\ lx'.pos = lx.pos)]_vars
    /\ [](BlankLineEOF => \A k \in 1..Len(sent) : sent[k].pos < lx.pos)

\* the scan of CR LF followed by an entry is over, with tokenEOF alone
C21_Witness ==
    /\ doc = <<"crlf", "x_int">>
    /\ BlankLineEOF
    /\ Terminated
    /\ Len(received) = 1
    /\ lx.pos = 1

(***************************************************************************)
(* C22: a value that starts with a digit goes to lexDatetime exactly when  *)
(* the byte four positions after that digit is '-', wherever that byte     *)
(* lies, and to lexNumber otherwise; a value that starts with a sign goes  *)
(* to lexNumber; lexDatetime emits tokenDatetime when the text at the      *)
(* digit matches the layout and tokenError, ending the scan, when not;     *)
(* lexNumber never emits tokenDatetime.                                    *)
(***************************************************************************)
Runs(state) == lx.state = state /\ ~lx.blocked /\ lx' # lx

\* the text at position p is laid out as 0000-00-00T00:00:00Z
MatchesLayout(p) ==
    \A i \in 1..Len(datetimeFormat) :
        LET r == RuneAt(input, p + i - 1)
        IN  IF datetimeFormat[i] = "0" THEN r \in Digits ELSE r = datetimeFormat[i]

DashAtFour == RuneAt(input, lx.pos + 4) = "-"

C22_NumberOrDatetime ==
    /\ [][(Runs("lexValue") /\ Read \in Digits) =>
            /\ lx'.state = "lexNumberOrDatetime"
            /\ lx'.pos = lx.pos
            /\ sent' = sent]_vars
    /\ [](lx.state = "lexNumberOrDatetime" => RuneAt(input, lx.pos) \in Digits)
    /\ [][Runs("lexNumberOrDatetime") =>
            /\ lx'.state = IF DashAtFour THEN "lexDatetime" ELSE "lexNumber"
            /\ lx'.pos = lx.pos
            /\ sent' = sent]_vars
    /\ [][(Runs("lexValue") /\ Read \in {"+", "-"}) =>
            /\ lx'.state = "lexNumber"
            /\ lx'.pos = lx.pos
            /\ sent' = sent]_vars
    /\ [][Runs("lexDatetime") =>
            IF MatchesLayout(lx.pos)
            THEN Emits(tokenDatetime) /\ lx'.state = "lexValue"
            ELSE Emits(tokenError) /\ lx'.state = "nil"]_vars
    /\ [][Runs("lexNumber") =>
            (Emits(tokenNumber) \/ Emits(tokenError))]_vars
    /\ [][Emits(tokenDatetime) => lx.state = "lexDatetime"]_vars

\* the 3 of `x = 3` was scanned as a date-time, and failed, because of the
\* '-' in the comment on the next line
C22_Witness ==
    /\ doc = <<"x_int", "c_dash">>
    /\ Terminated
    /\ Len(received) = 3
    /\ Last(received).typ = tokenError
    /\ Last(received).val = <<"bad datetime">>

(***************************************************************************)
(* C23: in the Document Parse returns, the top-level nodes stand in source *)
(* order; every entry after a section header, up to the next header or the *)
(* end of input, is a child of that header's group, in source order; and   *)
(* no bare entry stands after a group.  The end of input is where the      *)
(* scanner sent tokenEOF.                                                  *)
(***************************************************************************)
IsHead(tok) == tok.typ \in {tokenKey, tokenKeyGroup}

\* the headers and keys of a list of nodes, in the order of the list, as the
\* tokens they were made from
RECURSIVE Flat(_)
Flat(nodes) ==
    IF nodes = <<>> THEN <<>>
    ELSE LET n == Head(nodes)
         IN  IF n.NodeType = "NodeEntry"
             THEN <<[typ |-> tokenKey, pos |-> n.Pos, val |-> n.Key.Key]>>
                      \o Flat(Tail(nodes))
             ELSE <<[typ |-> tokenKeyGroup, pos |-> n.Pos, val |-> n.KeyGroup.Text]>>
                      \o Flat(n.Entries.Nodes) \o Flat(Tail(nodes))

Parsed == ParseReturned /\ perr = <<>> /\ ptree # <<>>

EndOfInput == Last(received).pos

\* where the key of the i-th fragment stands in the text
KeyPos(i) ==
    Offset(i) + (IF Frag(doc[i]).hdr = <<>> THEN 0 ELSE Len(Frag(doc[i]).hdr[1]) + 3)

\* where the header the i-th fragment's entry stands under is, -1 for none
HeaderPos(i) ==
    LET hs == {j \in 1..i : Frag(doc[j]).hdr # <<>>}
    IN  IF hs = {} THEN -1
        ELSE Offset(CHOOSE j \in hs : \A k \in hs : k <= j)

EntryUnder(nodes, i) ==
    \E k \in 1..Len(nodes) :
        /\ nodes[k].NodeType = "NodeEntry"
        /\ nodes[k].Pos = KeyPos(i)
        /\ nodes[k].Key.Key = Frag(doc[i]).key

C23_DocumentStructure ==
    Parsed =>
        /\ Last(received).typ = tokenEOF
        /\ Flat(Nodes) = SelectSeq(received, IsHead)
        /\ \A i, j \in 1..Len(Flat(Nodes)) :
              i < j => Flat(Nodes)[i].pos < Flat(Nodes)[j].pos
        /\ \A i, j \in 1..Len(Nodes) :
              (i < j /\ Nodes[i].NodeType = "NodeEntryGroup") =>
                  Nodes[j].NodeType = "NodeEntryGroup"
        /\ \A k \in 1..Len(Nodes) :
              Nodes[k].NodeType = "NodeEntryGroup" =>
                  \A e \in 1..Len(Nodes[k].Entries.Nodes) :
                      Nodes[k].Entries.Nodes[e].NodeType = "NodeEntry"
        /\ \A i \in 1..Len(doc) :
              /\ (Frag(doc[i]).hdr # <<>> /\ Offset(i) < EndOfInput) =>
                    \E k \in 1..Len(Nodes) :
                        /\ Nodes[k].NodeType = "NodeEntryGroup"
                        /\ Nodes[k].Pos = Offset(i)
                        /\ StringKeys(Nodes[k].KeyGroup) = Frag(doc[i]).hdr
              /\ (Frag(doc[i]).key # <<>> /\ KeyPos(i) < EndOfInput) =>
                    IF HeaderPos(i) = -1
                    THEN EntryUnder(Nodes, i)
                    ELSE \E k \in 1..Len(Nodes) :
                            /\ Nodes[k].NodeType = "NodeEntryGroup"
                            /\ Nodes[k].Pos = HeaderPos(i)
                            /\ EntryUnder(Nodes[k].Entries.Nodes, i)

\* `y = 2` after the section [a] with `x = 1`: one group with two children
C23_Witness ==
    /\ doc = <<"a_x", "y_int">>
    /\ Parsed
    /\ Len(Nodes) = 1
    /\ Nodes[1].NodeType = "NodeEntryGroup"
    /\ Len(Nodes[1].Entries.Nodes) = 2
    /\ Nodes[1].Entries.Nodes[2].Key.Key = <<"y">>

(***************************************************************************)
(* C24: an integer Number decoded onto a signed integer field narrower     *)
(* than 64 bits is never refused: the step returns no error and the field  *)
(* holds the one value of the field's range that differs from the          *)
(* document's value by a multiple of 2^width, which is the document's      *)
(* value exactly when that value lies in the range.                        *)
(***************************************************************************)
MinInt(bits) == -(2 ^ (bits - 1))
MaxInt(bits) == 2 ^ (bits - 1) - 1

\* x in two's complement of the given width
Wrapped(x, bits) ==
    CHOOSE w \in MinInt(bits)..MaxInt(bits) : (x - w) % (2 ^ bits) = 0

\* decode.top is about to decode an integer Number onto a narrow int field
NarrowInt ==
    /\ AtEntry
    /\ CurEntry.Value.NodeType = "NodeNumber"
    /\ CurEntry.Value.IsInt
    /\ CurField.st = "ok"
    /\ CurField.type.k = "int"
    /\ CurField.type.bits < 64

Stored(tgt) == Lookup(ttype, tgt, <<CurEntry.Key.Key>>)

C24_NarrowIntWraps ==
    [][NarrowInt =>
        LET x == CurEntry.Value.Int
            bits == CurField.type.bits
        IN  /\ uerr' = <<>>
            /\ pc' # "crashed"
            /\ Stored(target') = <<[k |-> "int", v |-> Wrapped(x, bits)]>>
            /\ (Stored(target') = <<[k |-> "int", v |-> x]>>)
                  <=> (x >= MinInt(bits) /\ x <= MaxInt(bits))]_vars

\* x = 300 onto an int8 field: Unmarshal returned nil and the field holds 44
C24_Witness ==
    /\ doc = <<"x_300">>
    /\ ttype = TRc(TInt8)
    /\ pc = "done"
    /\ uerr = <<>>
    /\ Lookup(ttype, target, <<<<"x">>>>) = <<[k |-> "int", v |-> 44]>>

====
